---- MODULE Spec2Model ----
(***************************************************************************)
(* Model of the kong-catalog storage engine (pkg/models Store) on top of   *)
(* the PostgreSQL schema of pkg/models/schema.sql.                         *)
(*                                                                         *)
(* Text values (names, search text, sort order) are sequences of one-      *)
(* character strings so that LOWER, LIKE and strings.EqualFold can be      *)
(* computed character by character.  Identifiers (UUIDs) and timestamps    *)
(* are integers; uuid.New() is a nondeterministic choice among the         *)
(* identifiers not yet stored, time.Now() reads the variable clock.        *)
(***************************************************************************)
EXTENDS Integers, Sequences, FiniteSets, TLC

\* ---- bounds of the model ----
MaxServices == 3
MaxVersions == 2
MaxClock == 1
MaxPage == 2
MaxProcs == 3

MaxWrites == 2

VARIABLES services, versions, clock, ret, walk, reqs

vars == <<services, versions, clock, ret, walk, reqs>>

\* ---- text ----

LowerChar(c) ==
  CASE c = "A" -> "a"
    [] c = "B" -> "b"
    [] c = "C" -> "c"
    [] c = "D" -> "d"
    [] c = "E" -> "e"
    [] c = "S" -> "s"
    [] OTHER -> c

Lower(s) == [i \in 1..Len(s) |-> LowerChar(s[i])]

\* byte value of a character (ORDER BY name compares text byte-wise under
\* the C collation; any deterministic collation is likewise a total order)
CharCode(c) ==
  CASE c = "%" -> 37
    [] c = "A" -> 65
    [] c = "B" -> 66
    [] c = "C" -> 67
    [] c = "D" -> 68
    [] c = "E" -> 69
    [] c = "S" -> 83
    [] c = "\\" -> 92
    [] c = "_" -> 95
    [] c = "a" -> 97
    [] c = "b" -> 98
    [] c = "c" -> 99
    [] c = "d" -> 100
    [] c = "e" -> 101
    [] c = "s" -> 115
    [] OTHER -> 120

RECURSIVE TextLess(_, _)
TextLess(s, t) ==
  IF t = <<>> THEN FALSE
  ELSE IF s = <<>> THEN TRUE
  ELSE IF Head(s) = Head(t) THEN TextLess(Tail(s), Tail(t))
  ELSE CharCode(Head(s)) < CharCode(Head(t))

\* s LIKE p of PostgreSQL: % matches any run of characters, _ any single
\* character, backslash makes the next pattern character literal.
RECURSIVE Like(_, _)
Like(s, p) ==
  IF p = <<>> THEN s = <<>>
  ELSE IF Head(p) = "\\"
       THEN /\ Len(p) >= 2
            /\ s # <<>>
            /\ Head(s) = p[2]
            /\ Like(Tail(s), Tail(Tail(p)))
  ELSE IF Head(p) = "%"
       THEN \/ Like(s, Tail(p))
            \/ (s # <<>> /\ Like(Tail(s), p))
  ELSE IF Head(p) = "_"
       THEN s # <<>> /\ Like(Tail(s), Tail(p))
  ELSE s # <<>> /\ Head(s) = Head(p) /\ Like(Tail(s), Tail(p))

\* strings.EqualFold(a, b)
EqualFold(a, b) == Lower(a) = Lower(b)

\* ---- Go slices: a nil slice and an empty non-nil slice are different ----
NilSlice == [isNil |-> TRUE, elems |-> <<>>]

EmptySlice == [isNil |-> FALSE, elems |-> <<>>]

\* append(s, x)
GoAppend(s, x) == [isNil |-> FALSE, elems |-> Append(s.elems, x)]

\* var out []T; for rows.Next() { out = append(out, row) }
RECURSIVE ScanAll(_, _)
ScanAll(out, rows) ==
  IF rows = <<>> THEN out ELSE ScanAll(GoAppend(out, Head(rows)), Tail(rows))

\* ---- error values returned by the driver (SQLSTATE condition names) ----
NoErr == "nil"

\* 23505, "duplicate key value violates unique constraint"
UniqueViolation == "unique_violation"

\* 23503, "violates foreign key constraint"
ForeignKeyViolation == "foreign_key_violation"

\* 23514, "violates check constraint"
CheckViolation == "check_violation"

\* ctx.Err() once the caller's deadline has elapsed
Timeout == "context deadline exceeded"

\* ---- input domains ----
Ids == 1..MaxServices

VersionIds == 1..MaxVersions

Names == {<<>>, <<"a", "b">>, <<"A", "b">>, <<"b", "a">>}

Descriptions == {<<"d">>}

VersionTexts == {<<>>, <<"1">>, <<"2">>}

Queries == {<<>>, <<"A">>, <<"a", "B">>, <<"%", "a">>, <<"_">>}

SortKeys == {"name", "created_at", "updated_at", "bogus", ""}

Orders == {<<"a", "s", "c">>, <<"d", "e", "s", "c">>, <<"D", "E", "S", "C">>,
           <<"D", "e", "s", "c">>, <<>>, <<"d", "e", "s">>}

Limits == (-1)..(MaxPage + 1)

\* offset is a row count: ValidateListServicesParams admits only
\* non-negative values and an absent parameter reads as 0
Offsets == 0..MaxServices

\* ---- schema.sql ----
ServiceRow(id, name, description, created_at, updated_at) ==
  [id |-> id, name |-> name, description |-> description,
   created_at |-> created_at, updated_at |-> updated_at]

VersionRow(id, service_id, version, created_at) ==
  [id |-> id, service_id |-> service_id, version |-> version,
   created_at |-> created_at]

ServiceIdSet(svcs) == {x.id : x \in svcs}

\* InsertServiceErr with the UNIQUE constraint on name left out
InsertServiceErrNoNameIndex(tbl, row) ==
  IF row.name = <<>> THEN CheckViolation
  ELSE IF \E x \in tbl : x.id = row.id THEN UniqueViolation
  ELSE NoErr

\* outcome of INSERT INTO services: the CHECK constraint is evaluated before
\* the row reaches the unique indexes
InsertServiceErr(tbl, row) ==
  IF row.name = <<>> THEN CheckViolation
  ELSE IF \E x \in tbl : x.id = row.id THEN UniqueViolation
  ELSE IF \E x \in tbl : x.name = row.name THEN UniqueViolation
  ELSE NoErr

\* InsertVersionErr with UNIQUE (service_id, version) left out
InsertVersionErrNoPairIndex(svcs, tbl, row) ==
  IF row.version = <<>> THEN CheckViolation
  ELSE IF \E v \in tbl : v.id = row.id THEN UniqueViolation
  ELSE IF ~ \E x \in svcs : x.id = row.service_id THEN ForeignKeyViolation
  ELSE NoErr

\* InsertVersionErr with REFERENCES services(id) left out
InsertVersionErrNoForeignKey(svcs, tbl, row) ==
  IF row.version = <<>> THEN CheckViolation
  ELSE IF \E v \in tbl : v.id = row.id THEN UniqueViolation
  ELSE IF \E v \in tbl : v.service_id = row.service_id /\ v.version = row.version
       THEN UniqueViolation
  ELSE NoErr

\* InsertVersionErr with CHECK (version != '') left out
InsertVersionErrNoCheck(svcs, tbl, row) ==
  IF \E v \in tbl : v.id = row.id THEN UniqueViolation
  ELSE IF \E v \in tbl : v.service_id = row.service_id /\ v.version = row.version
       THEN UniqueViolation
  ELSE IF ~ \E x \in svcs : x.id = row.service_id THEN ForeignKeyViolation
  ELSE NoErr

\* outcome of INSERT INTO service_versions: CHECK, then the unique indexes,
\* then the foreign-key trigger at the end of the statement
InsertVersionErr(svcs, tbl, row) ==
  IF row.version = <<>> THEN CheckViolation
  ELSE IF \E v \in tbl : v.id = row.id THEN UniqueViolation
  ELSE IF \E v \in tbl : v.service_id = row.service_id /\ v.version = row.version
       THEN UniqueViolation
  ELSE IF ~ \E x \in svcs : x.id = row.service_id THEN ForeignKeyViolation
  ELSE NoErr

\* ---- query evaluation ----
Min(a, b) == IF a < b THEN a ELSE b

\* all orders in which a SELECT may return the rows of S under an ORDER BY
\* that puts x before y for the pairs <<x, y>> of R: the next row is any row
\* that no remaining row precedes, so rows that the ORDER BY does not
\* separate come back in any order
RECURSIVE Orderings(_, _)
Orderings(S, R) ==
  IF S = {} THEN {<<>>}
  ELSE UNION {{<<x>> \o s : s \in Orderings(S \ {x}, R)} :
                x \in {y \in S : \A z \in S : <<z, y>> \notin R}}

\* LIMIT lim OFFSET off
LimitOffset(s, lim, off) ==
  IF off >= Len(s) THEN <<>> ELSE SubSeq(s, off + 1, Min(Len(s), off + lim))

\* comparison of two service rows on the sort column
ColLess(col, x, y) ==
  CASE col = "name" -> TextLess(x.name, y.name)
    [] col = "created_at" -> x.created_at < y.created_at
    [] col = "updated_at" -> x.updated_at < y.updated_at

\* ServiceBefore as ORDER BY <col> <ord> alone
ServiceBeforeNoTieBreak(col, ord, x, y) ==
  IF ord = "ASC" THEN ColLess(col, x, y) ELSE ColLess(col, y, x)

\* ServiceBefore as ORDER BY <col> <ord>, id
ServiceBeforeTieAscending(col, ord, x, y) ==
  \/ IF ord = "ASC" THEN ColLess(col, x, y) ELSE ColLess(col, y, x)
  \/ ~ ColLess(col, x, y) /\ ~ ColLess(col, y, x) /\ x.id < y.id

\* ORDER BY <col> <ord>, id <ord>
ServiceBefore(col, ord, x, y) ==
  LET lt(a, b) == ColLess(col, a, b) \/ (~ ColLess(col, b, a) /\ a.id < b.id)
  IN IF ord = "ASC" THEN lt(x, y) ELSE lt(y, x)

\* WHERE LOWER(name) LIKE LOWER($1) || '%'   (no WHERE clause when q is empty)
WhereName(q, x) == q = <<>> \/ Like(Lower(x.name), Lower(q) \o <<"%">>)

\* the parent query of ListServices: its possible result sets
ServicesQuery(svcs, q, col, ord, lim, off) ==
  LET rows == {x \in svcs : WhereName(q, x)}
      R == {p \in rows \X rows : ServiceBefore(col, ord, p[1], p[2])}
  IN {LimitOffset(s, lim, off) : s \in Orderings(rows, R)}

\* VersionBeforeBatch as ORDER BY service_id, created_at DESC
VersionBeforeBatchNoTieBreak(v, w) ==
  \/ v.service_id < w.service_id
  \/ v.service_id = w.service_id /\ v.created_at > w.created_at

\* ORDER BY service_id, created_at DESC, id DESC
VersionBeforeBatch(v, w) ==
  \/ v.service_id < w.service_id
  \/ v.service_id = w.service_id /\ v.created_at > w.created_at
  \/ v.service_id = w.service_id /\ v.created_at = w.created_at /\ v.id > w.id

\* VersionBefore as ORDER BY created_at ASC, id DESC
VersionBeforeOldestFirst(v, w) ==
  \/ v.created_at < w.created_at
  \/ v.created_at = w.created_at /\ v.id > w.id

\* ORDER BY created_at DESC, id DESC
VersionBefore(v, w) ==
  \/ v.created_at > w.created_at
  \/ v.created_at = w.created_at /\ v.id > w.id

\* the child query of ListServices: WHERE service_id IN (ids)
VersionsBatchQuery(vers, ids) ==
  LET rows == {v \in vers : v.service_id \in ids}
  IN Orderings(rows, {p \in rows \X rows : VersionBeforeBatch(p[1], p[2])})

\* VersionsQuery without its WHERE clause
VersionsQueryAllServices(vers, id) ==
  Orderings(vers, {p \in vers \X vers : VersionBefore(p[1], p[2])})

\* the version query of GetService and ListVersions: WHERE service_id = id
VersionsQuery(vers, id) ==
  LET rows == {v \in vers : v.service_id = id}
  IN Orderings(rows, {p \in rows \X rows : VersionBefore(p[1], p[2])})

\* ---- Store.ListServices ----
\* ClampLimit without the upper bound
ClampLimitOnlyNonPositive(limit) == IF limit <= 0 THEN MaxPage ELSE limit

ClampLimit(limit) == IF limit <= 0 \/ limit > MaxPage THEN MaxPage ELSE limit

\* SortColumn with created_at as the default column
SortColumnDefaultCreatedAt(sortKey) ==
  IF sortKey \in {"name", "updated_at"} THEN sortKey ELSE "created_at"

SortColumn(sortKey) ==
  IF sortKey \in {"created_at", "updated_at"} THEN sortKey ELSE "name"

\* SortDirection with order == "desc" in place of strings.EqualFold
SortDirectionCaseSensitive(order) ==
  IF order = <<"d", "e", "s", "c">> THEN "DESC" ELSE "ASC"

SortDirection(order) ==
  IF EqualFold(order, <<"d", "e", "s", "c">>) THEN "DESC" ELSE "ASC"

\* a scanned Service: Versions is still the zero value (nil)
ScanService(row) ==
  [id |-> row.id, name |-> row.name, description |-> row.description,
   created_at |-> row.created_at, updated_at |-> row.updated_at,
   Versions |-> NilSlice]

\* versionsByService[id] after the single pass over the child rows
VersionsByService(vrows, id) ==
  ScanAll(NilSlice, SelectSeq(vrows, LAMBDA v : v.service_id = id))

\* the loop that assigns Versions to every item (hydrated branch)
AssignVersions(items, vrows) ==
  [isNil |-> items.isNil,
   elems |-> [i \in 1..Len(items.elems) |->
                [items.elems[i] EXCEPT !.Versions =
                   IF ~ VersionsByService(vrows, items.elems[i].id).isNil
                   THEN VersionsByService(vrows, items.elems[i].id)
                   ELSE EmptySlice]]]

\* AssignEmpty with the loop left out: Versions stays nil
AssignEmptySkipped(items) == items

\* the loop that sets an empty Versions on every item (else branch)
AssignEmpty(items) ==
  [isNil |-> items.isNil,
   elems |-> [i \in 1..Len(items.elems) |->
                [items.elems[i] EXCEPT !.Versions = EmptySlice]]]

\* the child query is issued only for a hydrated listing of at least one
\* service
NeedsVersionQueryAlways(includeVersions, items) == includeVersions

NeedsVersionQuery(includeVersions, items) ==
  includeVersions /\ Len(items.elems) > 0

\* every run [err, items, queries] of ListServices on the tables: what it
\* returns and the number of queries it sent to the pool
ListServicesRuns(svcs, vers, q, sortKey, order, limit, offset, includeVersions) ==
  LET lim == ClampLimit(limit)
      col == SortColumn(sortKey)
      ord == SortDirection(order)
  IN UNION {
       LET items == ScanAll(NilSlice, [i \in 1..Len(rows) |-> ScanService(rows[i])])
           ids == {rows[i].id : i \in 1..Len(rows)}
       IN IF NeedsVersionQuery(includeVersions, items)
          THEN {[err |-> NoErr, items |-> AssignVersions(items, vrows),
                 queries |-> 2] :
                  vrows \in VersionsBatchQuery(vers, ids)}
          ELSE {[err |-> NoErr, items |-> AssignEmpty(items), queries |-> 1]}
       : rows \in ServicesQuery(svcs, q, col, ord, lim, offset)}

\* every outcome [err, items] that ListServices may return on the tables
ListServicesResults(svcs, vers, q, sortKey, order, limit, offset, includeVersions) ==
  {[err |-> t.err, items |-> t.items] :
     t \in ListServicesRuns(svcs, vers, q, sortKey, order, limit, offset,
                            includeVersions)}

ListServices(q, sortKey, order, limit, offset, includeVersions) ==
  /\ ret.op = "none"
  /\ \E t \in ListServicesRuns(services, versions, q, sortKey, order,
                               limit, offset, includeVersions) :
       ret' = [op |-> "ListServices", q |-> q, sortKey |-> sortKey,
               order |-> order, limit |-> limit, offset |-> offset,
               includeVersions |-> includeVersions,
               err |-> t.err, items |-> t.items, queries |-> t.queries]
  /\ UNCHANGED <<services, versions, clock, walk, reqs>>

\* ---- Store.GetService ----
\* GetServiceResults with pgx.ErrNoRows handed on to the caller
GetServiceResultsNoRowsError(svcs, vers, id, includeVersions) ==
  IF ~ \E x \in svcs : x.id = id
  THEN {[err |-> "no rows in result set", found |-> FALSE, queries |-> 1]}
  ELSE LET row == CHOOSE x \in svcs : x.id = id
       IN IF includeVersions
          THEN {[err |-> NoErr, found |-> TRUE, queries |-> 2,
                 svc |-> [ScanService(row) EXCEPT !.Versions = ScanAll(NilSlice, vrows)]] :
                  vrows \in VersionsQuery(vers, id)}
          ELSE {[err |-> NoErr, found |-> TRUE, queries |-> 1,
                 svc |-> [ScanService(row) EXCEPT !.Versions = EmptySlice]]}

\* every outcome [err, found, svc, queries] of GetService; found = FALSE is
\* the nil *Service, queries the number of queries sent to the pool
GetServiceResults(svcs, vers, id, includeVersions) ==
  IF ~ \E x \in svcs : x.id = id
  THEN {[err |-> NoErr, found |-> FALSE, queries |-> 1]}
  ELSE LET row == CHOOSE x \in svcs : x.id = id
       IN IF includeVersions
          THEN {[err |-> NoErr, found |-> TRUE, queries |-> 2,
                 svc |-> [ScanService(row) EXCEPT !.Versions = ScanAll(NilSlice, vrows)]] :
                  vrows \in VersionsQuery(vers, id)}
          ELSE {[err |-> NoErr, found |-> TRUE, queries |-> 1,
                 svc |-> [ScanService(row) EXCEPT !.Versions = EmptySlice]]}

\* GetService that also records the access in updated_at of the row read
GetServiceTouching(id, includeVersions) ==
  /\ ret.op = "none"
  /\ \E r \in GetServiceResults(services, versions, id, includeVersions) :
       ret' = [op |-> "GetService", id |-> id,
               includeVersions |-> includeVersions, res |-> r]
  /\ services' = {IF x.id = id THEN [x EXCEPT !.updated_at = MaxClock] ELSE x :
                    x \in services}
  /\ UNCHANGED <<versions, clock, walk, reqs>>

GetService(id, includeVersions) ==
  /\ ret.op = "none"
  /\ \E r \in GetServiceResults(services, versions, id, includeVersions) :
       ret' = [op |-> "GetService", id |-> id,
               includeVersions |-> includeVersions, res |-> r]
  /\ UNCHANGED <<services, versions, clock, walk, reqs>>

\* ---- Store.ListVersions ----
ListVersionsResults(vers, id) ==
  {[err |-> NoErr, versions |-> ScanAll(NilSlice, vrows)] :
     vrows \in VersionsQuery(vers, id)}

ListVersions(id) ==
  /\ ret.op = "none"
  /\ \E r \in ListVersionsResults(versions, id) :
       ret' = [op |-> "ListVersions", id |-> id, res |-> r]
  /\ UNCHANGED <<services, versions, clock, walk, reqs>>

\* ---- Store.CreateService ----
\* uuid.New(): an identifier that no stored row carries
FreshIds(pool, tbl) == pool \ {x.id : x \in tbl}

\* time.Now(): the wall clock, read after the instant `last`
Now(last) == last..MaxClock

\* ---- candidates handed to the create operations ----
\* the zero uuid.UUID
NilId == 0

ServiceCandidate(id, name, description, at) ==
  [ID |-> id, Name |-> name, Description |-> description,
   CreatedAt |-> at, UpdatedAt |-> at]

VersionCandidate(id, service_id, version, at) ==
  [ID |-> id, ServiceID |-> service_id, Version |-> version, CreatedAt |-> at]

\* StampService that keeps an identifier and timestamps the caller supplied
StampServiceKeepSupplied(candidate, id, created_at, updated_at) ==
  IF candidate.ID # NilId THEN candidate
  ELSE [candidate EXCEPT !.ID = id, !.CreatedAt = created_at,
                         !.UpdatedAt = updated_at]

\* service.ID = GenerateUUID(); service.CreatedAt = time.Now();
\* service.UpdatedAt = time.Now()
StampService(candidate, id, created_at, updated_at) ==
  [candidate EXCEPT !.ID = id, !.CreatedAt = created_at,
                    !.UpdatedAt = updated_at]

\* serviceVersion.ID = GenerateUUID(); serviceVersion.CreatedAt = time.Now()
StampVersion(candidate, id, created_at) ==
  [candidate EXCEPT !.ID = id, !.CreatedAt = created_at]

\* every run of CreateService on the table svcs at the instant clk: the
\* candidate as the call leaves it, the error of the INSERT, the table and
\* the clock after the call
CreateServiceRuns(svcs, clk, candidate) ==
  UNION {
    UNION {
      {LET service == StampService(candidate, id, created_at, updated_at)
           row == ServiceRow(service.ID, service.Name, service.Description,
                             service.CreatedAt, service.UpdatedAt)
           err == InsertServiceErr(svcs, row)
       IN [service |-> service, err |-> err,
           services |-> IF err = NoErr THEN svcs \cup {row} ELSE svcs,
           clock |-> updated_at] :
         updated_at \in Now(created_at)} :
      created_at \in Now(clk)} :
    id \in FreshIds(Ids, svcs)}

\* every outcome of CreateService for a candidate of the given name and
\* description: the generated identifier, the error of the INSERT, the
\* table and the clock after the call
CreateServiceOutcomes(svcs, clk, name, description) ==
  {[id |-> r.service.ID, err |-> r.err, services |-> r.services,
    clock |-> r.clock] :
     r \in CreateServiceRuns(svcs, clk,
                             ServiceCandidate(NilId, name, description, 0))}

CreateService(name, description) ==
  /\ ret.op = "none"
  /\ \E o \in CreateServiceOutcomes(services, clock, name, description) :
       /\ services' = o.services
       /\ clock' = o.clock
       /\ ret' = [op |-> "CreateService", name |-> name,
                  description |-> description, id |-> o.id, err |-> o.err,
                  pre |-> [services |-> services, versions |-> versions]]
  /\ UNCHANGED <<versions, walk, reqs>>

\* CreateService called with a candidate that carries an identifier and
\* timestamps of the caller
CreateServiceFrom(candidate) ==
  /\ ret.op = "none"
  /\ \E r \in CreateServiceRuns(services, clock, candidate) :
       /\ services' = r.services
       /\ clock' = r.clock
       /\ ret' = [op |-> "CreateService", candidate |-> candidate,
                  service |-> r.service, err |-> r.err,
                  pre |-> [services |-> services, versions |-> versions,
                           clock |-> clock]]
  /\ UNCHANGED <<versions, walk, reqs>>

\* ---- Store.CreateServiceVersion ----
\* every run of CreateServiceVersion on the tables at the instant clk
CreateServiceVersionRuns(svcs, vers, clk, candidate) ==
  UNION {
    {LET serviceVersion == StampVersion(candidate, id, created_at)
         row == VersionRow(serviceVersion.ID, serviceVersion.ServiceID,
                           serviceVersion.Version, serviceVersion.CreatedAt)
         err == InsertVersionErr(svcs, vers, row)
     IN [serviceVersion |-> serviceVersion, err |-> err,
         versions |-> IF err = NoErr THEN vers \cup {row} ELSE vers,
         clock |-> created_at] :
       created_at \in Now(clk)} :
    id \in FreshIds(VersionIds, vers)}

CreateServiceVersion(service_id, version) ==
  /\ ret.op = "none"
  /\ \E r \in CreateServiceVersionRuns(services, versions, clock,
                  VersionCandidate(NilId, service_id, version, 0)) :
       /\ versions' = r.versions
       /\ clock' = r.clock
       /\ ret' = [op |-> "CreateServiceVersion", service_id |-> service_id,
                  version |-> version, id |-> r.serviceVersion.ID,
                  err |-> r.err,
                  pre |-> [services |-> services, versions |-> versions]]
  /\ UNCHANGED <<services, walk, reqs>>

\* CreateServiceVersion called with a candidate that carries an identifier
\* and a timestamp of the caller
CreateServiceVersionFrom(candidate) ==
  /\ ret.op = "none"
  /\ \E r \in CreateServiceVersionRuns(services, versions, clock, candidate) :
       /\ versions' = r.versions
       /\ clock' = r.clock
       /\ ret' = [op |-> "CreateServiceVersion", candidate |-> candidate,
                  serviceVersion |-> r.serviceVersion, err |-> r.err,
                  pre |-> [services |-> services, versions |-> versions,
                           clock |-> clock]]
  /\ UNCHANGED <<services, walk, reqs>>

\* ---- the callers ----
\* the caller is done with the result of its last call
Discard ==
  /\ ret.op # "none"
  /\ ret' = [op |-> "none"]
  /\ UNCHANGED <<services, versions, clock, walk, reqs>>

IdleWalk == [state |-> "idle"]

\* no request has been started: started counts the requests, flying holds
\* those between their first statement and their INSERT, done the answered
\* ones
NoRequests == [started |-> 0, flying |-> {}, done |-> {}]

Init ==
  /\ services = {}
  /\ versions = {}
  /\ clock = 0
  /\ ret = [op |-> "none"]
  /\ walk = IdleWalk
  /\ reqs = NoRequests

Asc == <<"a", "s", "c">>

Desc == <<"d", "e", "s", "c">>

\* ---- Spec: the engine on services and versions ----
CoreNames == {<<>>, <<"a", "b">>, <<"A", "b">>}

\* a service is created at the clock reading of the last create; the
\* creates of versions move the clock
DoCreateService == \E name \in CoreNames, description \in Descriptions :
                     CreateService(name, description) /\ clock' = clock

DoCreateServiceVersion == \E service_id \in Ids, version \in VersionTexts :
                            CreateServiceVersion(service_id, version)

\* the first page at the default size and the second page of size one
DoListServices ==
  \E page \in {<<0, 0>>, <<1, 1>>}, includeVersions \in BOOLEAN :
    ListServices(<<>>, "created_at", Asc, page[1], page[2], includeVersions)

DoGetService == \E id \in Ids, includeVersions \in BOOLEAN :
                  GetService(id, includeVersions)

DoListVersions == \E id \in Ids : ListVersions(id)

Next ==
  \/ DoCreateService
  \/ DoCreateServiceVersion
  \/ DoListServices
  \/ DoGetService
  \/ DoListVersions
  \/ Discard

Spec == Init /\ [][Next]_vars

\* ---- SpecRead: reads of a catalog filled by creates the handlers let through ----
DoCreateNamedService == \E name \in CoreNames \ {<<>>}, description \in Descriptions :
                          CreateService(name, description) /\ clock' = clock

DoCreateVersionOfService ==
  \E service_id \in ServiceIdSet(services), version \in VersionTexts \ {<<>>} :
    CreateServiceVersion(service_id, version)

NextRead ==
  \/ DoCreateNamedService
  \/ DoCreateVersionOfService
  \/ DoListServices
  \/ DoGetService
  \/ DoListVersions
  \/ Discard

SpecRead == Init /\ [][NextRead]_vars

\* ---- SpecCreate: creates whose candidate carries caller-supplied fields ----
\* the zero identifier, or an identifier that a stored row may carry
SuppliedIds == {NilId, 1}

\* the zero time, or a time the clock has not passed
SuppliedTimes == {0, MaxClock}

ServiceCandidates ==
  {ServiceCandidate(id, name, description, at) :
     id \in SuppliedIds, name \in CoreNames \ {<<>>},
     description \in Descriptions, at \in SuppliedTimes}

VersionCandidates ==
  {VersionCandidate(id, service_id, version, at) :
     id \in SuppliedIds, service_id \in Ids,
     version \in VersionTexts \ {<<>>}, at \in SuppliedTimes}

\* as in Spec, the creates of versions move the clock
DoCreateServiceFrom == \E candidate \in ServiceCandidates :
                         CreateServiceFrom(candidate) /\ clock' = clock

DoCreateServiceVersionFrom == \E candidate \in VersionCandidates :
                                CreateServiceVersionFrom(candidate)

NextCreate ==
  \/ DoCreateServiceFrom
  \/ DoCreateServiceVersionFrom
  \/ Discard

SpecCreate == Init /\ [][NextCreate]_vars

\* ---- SpecDeadline: creates under a deadline of the caller ----
\* CreateServiceDeadlineRuns of an engine that sends the INSERT again when
\* the deadline has elapsed
CreateServiceDeadlineRunsRetrying(svcs, clk, candidate) ==
  LET runs == CreateServiceRuns(svcs, clk, candidate)
      row(r) == ServiceRow(r.service.ID, r.service.Name, r.service.Description,
                           r.service.CreatedAt, r.service.UpdatedAt)
  IN {[service |-> r.service, err |-> r.err, services |-> r.services,
       clock |-> r.clock, inserts |-> 1] : r \in runs}
     \cup
     {[service |-> r.service, err |-> InsertServiceErr(r.services, row(r)),
       services |-> r.services, clock |-> r.clock, inserts |-> 2] : r \in runs}

\* every run of CreateService under a context whose deadline may elapse:
\* the one QueryRow is answered in time; or it is sent and the deadline
\* elapses while the answer is awaited, the statement committed or
\* cancelled as a whole; or the deadline elapses before it is sent.
\* inserts counts the INSERT statements sent.
CreateServiceDeadlineRuns(svcs, clk, candidate) ==
  LET runs == CreateServiceRuns(svcs, clk, candidate)
  IN {[service |-> r.service, err |-> r.err, services |-> r.services,
       clock |-> r.clock, inserts |-> 1] : r \in runs}
     \cup
     {[service |-> r.service, err |-> Timeout, services |-> r.services,
       clock |-> r.clock, inserts |-> 1] : r \in runs}
     \cup
     {[service |-> r.service, err |-> Timeout, services |-> svcs,
       clock |-> r.clock, inserts |-> n] : r \in runs, n \in {0, 1}}

CreateServiceVersionDeadlineRuns(svcs, vers, clk, candidate) ==
  LET runs == CreateServiceVersionRuns(svcs, vers, clk, candidate)
  IN {[serviceVersion |-> r.serviceVersion, err |-> r.err,
       versions |-> r.versions, clock |-> r.clock, inserts |-> 1] : r \in runs}
     \cup
     {[serviceVersion |-> r.serviceVersion, err |-> Timeout,
       versions |-> r.versions, clock |-> r.clock, inserts |-> 1] : r \in runs}
     \cup
     {[serviceVersion |-> r.serviceVersion, err |-> Timeout,
       versions |-> vers, clock |-> r.clock, inserts |-> n] :
        r \in runs, n \in {0, 1}}

\* a call of CreateService under a deadline; retry says that the caller
\* repeats a create that timed out, applied that an earlier attempt of it
\* had stored the row
CreateServiceUnderDeadline(candidate, retry, applied) ==
  \E r \in CreateServiceDeadlineRuns(services, clock, candidate) :
    /\ services' = r.services
    /\ clock' = r.clock
    /\ ret' = [op |-> "CreateService", candidate |-> candidate,
               service |-> r.service, err |-> r.err, inserts |-> r.inserts,
               retry |-> retry, applied |-> applied,
               pre |-> [services |-> services, versions |-> versions,
                        clock |-> clock]]
    /\ UNCHANGED <<versions, walk, reqs>>

CreateServiceVersionUnderDeadline(candidate, retry, applied) ==
  \E r \in CreateServiceVersionDeadlineRuns(services, versions, clock, candidate) :
    /\ versions' = r.versions
    /\ clock' = r.clock
    /\ ret' = [op |-> "CreateServiceVersion", candidate |-> candidate,
               serviceVersion |-> r.serviceVersion, err |-> r.err,
               inserts |-> r.inserts, retry |-> retry, applied |-> applied,
               pre |-> [services |-> services, versions |-> versions,
                        clock |-> clock]]
    /\ UNCHANGED <<services, walk, reqs>>

DoCreateServiceUnderDeadline ==
  /\ ret.op = "none"
  /\ \E name \in CoreNames \ {<<>>}, description \in Descriptions :
       CreateServiceUnderDeadline(ServiceCandidate(NilId, name, description, 0),
                                  FALSE, FALSE)

DoCreateServiceVersionUnderDeadline ==
  /\ ret.op = "none"
  /\ \E service_id \in ServiceIdSet(services), version \in {<<"1">>} :
       CreateServiceVersionUnderDeadline(
         VersionCandidate(NilId, service_id, version, 0), FALSE, FALSE)

\* the caller repeats the create that timed out, with the same candidate
RetryCreateService ==
  /\ ret.op = "CreateService"
  /\ ret.err = Timeout
  /\ CreateServiceUnderDeadline(ret.candidate, TRUE,
                                ret.applied \/ services # ret.pre.services)

RetryCreateServiceVersion ==
  /\ ret.op = "CreateServiceVersion"
  /\ ret.err = Timeout
  /\ CreateServiceVersionUnderDeadline(ret.candidate, TRUE,
                                       ret.applied \/ versions # ret.pre.versions)

NextDeadline ==
  \/ DoCreateServiceUnderDeadline
  \/ DoCreateServiceVersionUnderDeadline
  \/ RetryCreateService
  \/ RetryCreateServiceVersion
  \/ Discard

SpecDeadline == Init /\ [][NextDeadline]_vars

\* ---- SpecConc: create requests that run concurrently ----
\* identifiers that uuid.New() has handed to a request of the given kind
IssuedIds(kind) ==
  {r.row.id : r \in {f \in reqs.flying : f.kind = kind}}
    \cup {d.row.id : d \in {f \in reqs.done : f.kind = kind}}

\* the first three statements of Store.CreateService in one request: the
\* candidate is stamped, the INSERT is still to be sent
BeginCreateService(name, description) ==
  /\ reqs.started < MaxProcs
  /\ \E id \in FreshIds(Ids, services) \ IssuedIds("service") :
       \E created_at \in Now(clock) :
         \E updated_at \in Now(created_at) :
           LET service == StampService(ServiceCandidate(NilId, name, description, 0),
                                       id, created_at, updated_at)
               row == ServiceRow(service.ID, service.Name, service.Description,
                                 service.CreatedAt, service.UpdatedAt)
           IN /\ reqs' = [reqs EXCEPT !.started = reqs.started + 1,
                                      !.flying = reqs.flying \cup
                                        {[kind |-> "service", row |-> row]}]
              /\ clock' = updated_at
  /\ UNCHANGED <<services, versions, ret, walk>>

\* the INSERT of a request in flight: one statement of the database
InsertService ==
  \E r \in {f \in reqs.flying : f.kind = "service"} :
    LET err == InsertServiceErr(services, r.row)
        raced == \E f \in reqs.flying \ {r} :
                   f.kind = "service" /\ f.row.name = r.row.name
    IN /\ services' = IF err = NoErr THEN services \cup {r.row} ELSE services
       /\ reqs' = [reqs EXCEPT !.flying = reqs.flying \ {r},
                               !.done = reqs.done \cup
                                 {[kind |-> "service", row |-> r.row,
                                   err |-> err, raced |-> raced]}]
       /\ UNCHANGED <<versions, clock, ret, walk>>

\* the first two statements of Store.CreateServiceVersion in one request
BeginCreateServiceVersion(service_id, version) ==
  /\ reqs.started < MaxProcs
  /\ \E id \in FreshIds(VersionIds, versions) \ IssuedIds("version") :
       \E created_at \in Now(clock) :
         LET serviceVersion ==
               StampVersion(VersionCandidate(NilId, service_id, version, 0),
                            id, created_at)
             row == VersionRow(serviceVersion.ID, serviceVersion.ServiceID,
                               serviceVersion.Version, serviceVersion.CreatedAt)
         IN /\ reqs' = [reqs EXCEPT !.started = reqs.started + 1,
                                    !.flying = reqs.flying \cup
                                      {[kind |-> "version", row |-> row]}]
            /\ clock' = created_at
  /\ UNCHANGED <<services, versions, ret, walk>>

InsertVersion ==
  \E r \in {f \in reqs.flying : f.kind = "version"} :
    LET err == InsertVersionErr(services, versions, r.row)
        raced == \E f \in reqs.flying \ {r} :
                   /\ f.kind = "version"
                   /\ f.row.service_id = r.row.service_id
                   /\ f.row.version = r.row.version
    IN /\ versions' = IF err = NoErr THEN versions \cup {r.row} ELSE versions
       /\ reqs' = [reqs EXCEPT !.flying = reqs.flying \ {r},
                               !.done = reqs.done \cup
                                 {[kind |-> "version", row |-> r.row,
                                   err |-> err, raced |-> raced]}]
       /\ UNCHANGED <<services, clock, ret, walk>>

DoBeginCreateService ==
  \E name \in CoreNames \ {<<>>}, description \in Descriptions :
    BeginCreateService(name, description)

DoBeginCreateServiceVersion ==
  \E service_id \in ServiceIdSet(services), version \in {<<"1">>} :
    BeginCreateServiceVersion(service_id, version)

NextConc ==
  \/ DoBeginCreateService
  \/ InsertService
  \/ DoBeginCreateServiceVersion
  \/ InsertVersion

SpecConc == Init /\ [][NextConc]_vars

\* ---- the request surface: middleware, validation, handlers ----
StatusOK == 200

StatusCreated == 201

StatusBadRequest == 400

StatusUnauthorized == 401

StatusNotFound == 404

StatusConflict == 409

StatusInternalServerError == 500

StatusServiceUnavailable == 503

\* len(req.Name) > 100, len(req.Description) > 1000, len(req.Version) > 50
MaxNameLen == 100

MaxDescriptionLen == 1000

MaxVersionLen == 50

\* cfg.ValidAPIKeys
ValidAPIKeys == {"test-api-key-1"}

\* the X-API-Key header of a request; "" is the absent header
APIKeys == {"", "wrong-key", "test-api-key-1"}

\* the {id} of a request path, by what uuid.Parse makes of it: the empty
\* text, a text that is no UUID, or the text of a UUID with its version
\* and, for a version 4 UUID, the identifier it denotes
RawId(form, version, id) == [form |-> form, version |-> version, id |-> id]

RawIds ==
  {RawId("empty", 0, NilId), RawId("text", 0, NilId),
   RawId("uuid", 0, NilId), RawId("uuid", 1, NilId)}
    \cup {RawId("uuid", 4, id) : id \in Ids}

\* uuid.Parse
ParseUUID(raw) ==
  IF raw.form = "uuid"
  THEN [ok |-> TRUE, id |-> raw.id, version |-> raw.version]
  ELSE [ok |-> FALSE, id |-> NilId, version |-> 0]

\* ValidateID without the check of the UUID version
ValidateIDAnyVersion(raw) ==
  IF raw.form = "empty" THEN "ID cannot be empty"
  ELSE IF ~ ParseUUID(raw).ok THEN "ID must be a valid UUID"
  ELSE NoErr

\* validation.ValidateID: nil or the message of the ValidationError
ValidateID(raw) ==
  IF raw.form = "empty" THEN "ID cannot be empty"
  ELSE IF ~ ParseUUID(raw).ok THEN "ID must be a valid UUID"
  ELSE IF ParseUUID(raw).version # 4 THEN "ID must be a valid UUIDv4"
  ELSE NoErr

\* the include_versions query parameter; "" is the absent parameter
IncludeValues == {"", "true", "false", "yes"}

\* validation.ValidateGetServiceParams
ValidateGetServiceParams(include_versions) ==
  IF include_versions # "" /\ include_versions \notin {"true", "false"}
  THEN "must be either 'true' or 'false'"
  ELSE NoErr

\* the Content-Type header; "" is the absent header
ContentTypes == {"", "application/json", "text/plain"}

\* validation.ValidateCreateServiceParams and
\* validation.ValidateCreateServiceVersionParams:
\* strings.Contains(contentType, "application/json")
ValidateContentType(contentType) ==
  IF contentType # "" /\ contentType # "application/json"
  THEN "must be application/json"
  ELSE NoErr

\* the paths APIKeyMiddleware lets through without a key
OpenPaths == {"GET /healthz", "GET /readyz"}

\* APIKeyMiddleware without the comparison against the configured keys
APIKeyMiddlewareAnyKey(apiKey) ==
  IF apiKey = "" THEN StatusUnauthorized ELSE 0

\* middleware.APIKeyMiddleware: the status it answers with, or 0 when the
\* request goes on to the next handler
APIKeyMiddleware(apiKey) ==
  IF apiKey = "" THEN StatusUnauthorized
  ELSE IF apiKey \notin ValidAPIKeys THEN StatusUnauthorized
  ELSE 0

\* APIKeyMiddleware on a request to path: /healthz and /readyz go on to
\* the next handler before the header is read
APIKeyGate(path, apiKey) ==
  IF path \in OpenPaths THEN 0 ELSE APIKeyMiddleware(apiKey)

\* err.Error() of a failure of the store, as a sequence of phrases: the
\* message of the PostgreSQL error with its SQLSTATE, or the text of the
\* context error
ErrorText(err) ==
  IF err = UniqueViolation
  THEN <<"ERROR:", "duplicate key", "value violates unique constraint",
         "(SQLSTATE 23505)">>
  ELSE IF err = ForeignKeyViolation
  THEN <<"ERROR:", "insert or update on table", "violates foreign key constraint",
         "(SQLSTATE 23503)">>
  ELSE IF err = CheckViolation
  THEN <<"ERROR:", "new row for relation", "violates check constraint",
         "(SQLSTATE 23514)">>
  ELSE <<err>>

\* strings.Contains on texts that are sequences of phrases
Contains(text, phrase) == \E i \in 1..Len(text) : text[i] = phrase

\* strings.Contains(err.Error(), "duplicate key")
IsDuplicateKey(err) == Contains(ErrorText(err), "duplicate key")

\* respondError: the JSON object written, "error" only for a non-nil err
ErrorBody(message, err) ==
  IF err = NoErr THEN [message |-> <<message>>]
  ELSE [message |-> <<message>>, error |-> ErrorText(err)]

\* json.Encode of the Service the handler created: Versions is the empty
\* slice of the handler and is left out by omitempty
JsonService(service) ==
  [id |-> service.ID, name |-> service.Name,
   description |-> service.Description,
   created_at |-> service.CreatedAt, updated_at |-> service.UpdatedAt]

\* json.Encode of a ServiceVersion
JsonServiceVersion(serviceVersion) ==
  [id |-> serviceVersion.ID, service_id |-> serviceVersion.ServiceID,
   version |-> serviceVersion.Version,
   created_at |-> serviceVersion.CreatedAt]

\* what a request is answered with: the status written to the response
\* and the store operations the handler invoked on the way
Answer(status, calls) == [status |-> status, calls |-> calls]

\* the value the request context holds under the key "id"
NoContext == [set |-> FALSE, id |-> RawId("empty", 0, NilId)]

WithId(raw) == [set |-> TRUE, id |-> raw]

\* the validator of an id route that returns nil without storing the id
IdValidatorNoContext(raw) ==
  [err |-> ValidateID(raw), ctx |-> NoContext]

\* the validator of the three id routes: ValidateID on chi.URLParam, then
\* context.WithValue(r.Context(), "id", id) written into the request
IdValidator(raw) ==
  IF ValidateID(raw) # NoErr
  THEN [err |-> ValidateID(raw), ctx |-> NoContext]
  ELSE [err |-> NoErr, ctx |-> WithId(raw)]

\* how far a handler of an id route gets on its first lines:
\* r.Context().Value("id").(string) panics on a context without the
\* value, uuid.Parse refuses with 400, or the handler goes on
HandlerStage(ctx) ==
  IF ~ ctx.set THEN "panic"
  ELSE IF ~ ParseUUID(ctx.id).ok THEN "handler parse"
  ELSE "handler"

\* the answer of an id route: the status (0 when the handler panicked and
\* nothing was written), the store operations invoked, the stage that
\* ended the request and the context the validator left
IdAnswer(status, calls, by, ctx) ==
  [status |-> status, calls |-> calls, by |-> by, ctx |-> ctx]

\* the answers of an id route up to the first lines of its handler, {}
\* when the handler goes on; paramsErr is what the validators after
\* ValidateID return
IdRouteRefusals(apiKey, raw, paramsErr) ==
  LET v == IdValidator(raw)
  IN IF APIKeyMiddleware(apiKey) # 0
     THEN {IdAnswer(APIKeyMiddleware(apiKey), <<>>, "APIKeyMiddleware", NoContext)}
     ELSE IF v.err # NoErr
     THEN {IdAnswer(StatusBadRequest, <<>>, "ValidationMiddleware", v.ctx)}
     ELSE IF paramsErr # NoErr
     THEN {IdAnswer(StatusBadRequest, <<>>, "ValidationMiddleware", v.ctx)}
     ELSE IF HandlerStage(v.ctx) = "panic"
     THEN {IdAnswer(0, <<>>, "panic", v.ctx)}
     ELSE IF HandlerStage(v.ctx) = "handler parse"
     THEN {IdAnswer(StatusBadRequest, <<>>, "handler parse", v.ctx)}
     ELSE {}

\* GET /v1/services/{id}: APIKeyMiddleware, the ValidationMiddleware of
\* the route, then ServicesHandler.GetService
HttpGetServiceAnswers(svcs, vers, apiKey, raw, include_versions) ==
  LET refusals == IdRouteRefusals(apiKey, raw,
                                  ValidateGetServiceParams(include_versions))
      ctx == IdValidator(raw).ctx
  IN IF refusals # {} THEN refusals
     ELSE {IdAnswer(IF t.err # NoErr THEN StatusInternalServerError
                    ELSE IF ~ t.found THEN StatusNotFound
                    ELSE StatusOK, <<"GetService">>, "handler", ctx) :
             t \in GetServiceResults(svcs, vers, ParseUUID(ctx.id).id,
                                     include_versions = "true")}

\* GET /v1/services/{id}/versions: APIKeyMiddleware, the
\* ValidationMiddleware of the route, then ServicesHandler.ListVersions
HttpListVersionsAnswers(vers, apiKey, raw) ==
  LET refusals == IdRouteRefusals(apiKey, raw, NoErr)
      ctx == IdValidator(raw).ctx
  IN IF refusals # {} THEN refusals
     ELSE {IdAnswer(IF t.err # NoErr THEN StatusInternalServerError
                    ELSE StatusOK, <<"ListVersions">>, "handler", ctx) :
             t \in ListVersionsResults(vers, ParseUUID(ctx.id).id)}

\* the body of a POST as json.Decoder.Decode leaves it: an error, or the
\* request struct with the fields the body gave
MalformedBody == [ok |-> FALSE, name |-> <<>>, description |-> <<>>,
                  version |-> <<>>]

ServiceBody(name, description) ==
  [ok |-> TRUE, name |-> name, description |-> description, version |-> <<>>]

VersionBody(version) ==
  [ok |-> TRUE, name |-> <<>>, description |-> <<>>, version |-> version]

\* the checks of ServicesHandler.CreateService before the store is called:
\* the status of the refusal, or 0
CreateServiceRefusal(body) ==
  IF ~ body.ok THEN StatusBadRequest
  ELSE IF body.name = <<>> THEN StatusBadRequest
  ELSE IF Len(body.name) > MaxNameLen THEN StatusBadRequest
  ELSE IF Len(body.description) > MaxDescriptionLen THEN StatusBadRequest
  ELSE 0

\* the checks of ServicesHandler.CreateServiceVersion on the body, before
\* the store is called: the status of the refusal, or 0
CreateServiceVersionRefusal(body) ==
  IF ~ body.ok THEN StatusBadRequest
  ELSE IF body.version = <<>> THEN StatusBadRequest
  ELSE IF Len(body.version) > MaxVersionLen THEN StatusBadRequest
  ELSE 0

\* CreateStatus with 201 written whatever the store returned
CreateStatusAlwaysCreated(err) == StatusCreated

\* the status a create answers with after the store returned err
CreateStatus(err) ==
  IF err = NoErr THEN StatusCreated
  ELSE IF IsDuplicateKey(err) THEN StatusConflict
  ELSE StatusInternalServerError

\* GET /v1/services/{id}
HttpGetService(apiKey, raw, include_versions) ==
  /\ ret.op = "none"
  /\ \E a \in HttpGetServiceAnswers(services, versions, apiKey, raw,
                                     include_versions) :
       ret' = [op |-> "HTTP", route |-> "GET /v1/services/{id}",
               apiKey |-> apiKey, raw |-> raw,
               include_versions |-> include_versions,
               status |-> a.status, calls |-> a.calls,
               by |-> a.by, ctx |-> a.ctx,
               pre |-> [services |-> services, versions |-> versions]]
  /\ UNCHANGED <<services, versions, clock, walk, reqs>>

\* GET /v1/services/{id}/versions
HttpListVersions(apiKey, raw) ==
  /\ ret.op = "none"
  /\ \E a \in HttpListVersionsAnswers(versions, apiKey, raw) :
       ret' = [op |-> "HTTP", route |-> "GET /v1/services/{id}/versions",
               apiKey |-> apiKey, raw |-> raw,
               status |-> a.status, calls |-> a.calls,
               by |-> a.by, ctx |-> a.ctx,
               pre |-> [services |-> services, versions |-> versions]]
  /\ UNCHANGED <<services, versions, clock, walk, reqs>>

\* POST /v1/services: APIKeyMiddleware, ValidationMiddleware over
\* ValidateCreateServiceParams, then ServicesHandler.CreateService; the
\* identifier and the times the handler puts in the candidate are the
\* ones Store.CreateService assigns over
HttpCreateService(apiKey, contentType, body) ==
  /\ ret.op = "none"
  /\ LET refusal ==
           IF APIKeyMiddleware(apiKey) # 0 THEN APIKeyMiddleware(apiKey)
           ELSE IF ValidateContentType(contentType) # NoErr
           THEN StatusBadRequest
           ELSE CreateServiceRefusal(body)
         request == [op |-> "HTTP", route |-> "POST /v1/services",
                     apiKey |-> apiKey, contentType |-> contentType,
                     body |-> body,
                     pre |-> [services |-> services, versions |-> versions]]
     IN IF refusal # 0
        THEN /\ ret' = [status |-> refusal, calls |-> <<>>] @@ request
             /\ UNCHANGED <<services, clock>>
        ELSE \E r \in CreateServiceRuns(services, clock,
                         ServiceCandidate(NilId, body.name,
                                          body.description, clock)) :
               /\ services' = r.services
               /\ clock' = r.clock
               /\ ret' = [status |-> CreateStatus(r.err),
                          calls |-> <<"CreateService">>,
                          sent |-> IF CreateStatus(r.err) = StatusCreated
                                   THEN JsonService(r.service)
                                   ELSE ErrorBody(
                                     IF IsDuplicateKey(r.err)
                                     THEN "Service with this name already exists"
                                     ELSE "Failed to create service", r.err)]
                         @@ request
  /\ UNCHANGED <<versions, walk, reqs>>

\* POST /v1/services/{id}/versions: APIKeyMiddleware, ValidationMiddleware
\* over ValidateID, ValidationMiddleware over
\* ValidateCreateServiceVersionParams, then
\* ServicesHandler.CreateServiceVersion
HttpCreateServiceVersion(apiKey, raw, contentType, body) ==
  /\ ret.op = "none"
  /\ LET refusals == IdRouteRefusals(apiKey, raw,
                                     ValidateContentType(contentType))
         ctx == IdValidator(raw).ctx
         request == [op |-> "HTTP",
                     route |-> "POST /v1/services/{id}/versions",
                     apiKey |-> apiKey, raw |-> raw,
                     contentType |-> contentType, body |-> body,
                     pre |-> [services |-> services, versions |-> versions]]
     IN IF refusals # {}
        THEN /\ \E a \in refusals : ret' = a @@ request
             /\ UNCHANGED <<versions, clock>>
        ELSE IF CreateServiceVersionRefusal(body) # 0
        THEN /\ ret' = IdAnswer(CreateServiceVersionRefusal(body), <<>>,
                                "handler", ctx) @@ request
             /\ UNCHANGED <<versions, clock>>
        ELSE \E r \in CreateServiceVersionRuns(services, versions, clock,
                         VersionCandidate(NilId, ParseUUID(ctx.id).id,
                                          body.version, clock)) :
               /\ versions' = r.versions
               /\ clock' = r.clock
               /\ ret' = [sent |-> IF CreateStatus(r.err) = StatusCreated
                                   THEN JsonServiceVersion(r.serviceVersion)
                                   ELSE ErrorBody(
                                     IF IsDuplicateKey(r.err)
                                     THEN "Version already exists for this service"
                                     ELSE "Failed to create service version",
                                     r.err)]
                         @@ IdAnswer(CreateStatus(r.err),
                                     <<"CreateServiceVersion">>, "handler", ctx)
                         @@ request
  /\ UNCHANGED <<services, walk, reqs>>

\* ---- GET /v1/services: the list parameters ----
\* limit > 1000, len(limitStr) > 10, len(q) > 100
MaxLimitParam == 1000

MaxLimitChars == 10

MaxQueryLen == 100

\* a numeric query parameter by what strconv.Atoi makes of it: absent (the
\* empty text), a text that is no integer, or the text of an integer with
\* its value and its length in characters
RawInt(form, value, chars) == [form |-> form, value |-> value, chars |-> chars]

AbsentInt == RawInt("absent", 0, 0)

\* strconv.Atoi
Atoi(raw) ==
  IF raw.form = "int" THEN [ok |-> TRUE, value |-> raw.value]
  ELSE [ok |-> FALSE, value |-> 0]

\* what the limit and offset parameters are drawn from: absent, "abc",
\* "-1", "0", "1", "1000", "1001" and "00000000001"
RawInts ==
  {AbsentInt, RawInt("text", 0, 3), RawInt("int", -1, 2), RawInt("int", 0, 1),
   RawInt("int", 1, 1), RawInt("int", MaxLimitParam, 4),
   RawInt("int", MaxLimitParam + 1, 4), RawInt("int", 1, MaxLimitChars + 1)}

\* the order parameter as sent; the empty text is the absent parameter
RawOrders == {<<>>, Asc, Desc, <<"D", "E", "S", "C">>}

\* the sort parameter as sent; "" is the absent parameter
RawSorts == {"", "name", "created_at", "updated_at", "bogus"}

\* a search text of one character more than the boundary accepts
LongQuery == [i \in 1..(MaxQueryLen + 1) |-> "a"]

RawQueries == {<<>>, <<"a">>, LongQuery}

\* a request to GET /v1/services
ListRequest(limit, offset, sort, order, include_versions, q) ==
  [limit |-> limit, offset |-> offset, sort |-> sort, order |-> order,
   include_versions |-> include_versions, q |-> q]

\* the fields ValidateListServicesParams appends an error for, in the
\* order of the appends
LimitErrors(limit) ==
  IF limit.form = "absent" THEN <<>>
  ELSE (IF ~ Atoi(limit).ok \/ Atoi(limit).value <= 0
            \/ Atoi(limit).value > MaxLimitParam
        THEN <<"limit">> ELSE <<>>)
       \o (IF limit.chars > MaxLimitChars THEN <<"limit">> ELSE <<>>)

OffsetErrors(offset) ==
  IF offset.form # "absent" /\ (~ Atoi(offset).ok \/ Atoi(offset).value < 0)
  THEN <<"offset">> ELSE <<>>

\* validation.ValidateListServicesParams: the fields of the errors
\* collected, <<>> when it returns nil
ValidateListServicesParams(req) ==
  LimitErrors(req.limit)
    \o OffsetErrors(req.offset)
    \o (IF req.sort # "" /\ req.sort \notin {"name", "created_at", "updated_at"}
        THEN <<"sort">> ELSE <<>>)
    \o (IF req.order # <<>> /\ req.order # Asc /\ req.order # Desc
        THEN <<"order">> ELSE <<>>)
    \o (IF req.include_versions # ""
           /\ req.include_versions \notin {"true", "false"}
        THEN <<"include_versions">> ELSE <<>>)
    \o (IF req.q # <<>> /\ Len(req.q) > MaxQueryLen THEN <<"q">> ELSE <<>>)

\* the arguments ServicesHandler.ListServices hands to Store.ListServices:
\* limit, _ := strconv.Atoi(...), include_versions == "true"
ListServicesArgs(req) ==
  [q |-> req.q, sortKey |-> req.sort, order |-> req.order,
   limit |-> Atoi(req.limit).value, offset |-> Atoi(req.offset).value,
   includeVersions |-> req.include_versions = "true"]

\* GET /v1/services: APIKeyMiddleware, ValidationMiddleware over
\* ValidateListServicesParams, then ServicesHandler.ListServices
HttpListServicesAnswers(svcs, vers, apiKey, req) ==
  IF APIKeyMiddleware(apiKey) # 0
  THEN {Answer(APIKeyMiddleware(apiKey), <<>>)}
  ELSE IF ValidateListServicesParams(req) # <<>>
  THEN {Answer(StatusBadRequest, <<>>)}
  ELSE LET a == ListServicesArgs(req)
       IN {Answer(IF t.err # NoErr THEN StatusInternalServerError
                  ELSE StatusOK, <<"ListServices">>) :
             t \in ListServicesRuns(svcs, vers, a.q, a.sortKey, a.order,
                                    a.limit, a.offset, a.includeVersions)}

\* GET /v1/services
HttpListServices(apiKey, req) ==
  /\ ret.op = "none"
  /\ \E a \in HttpListServicesAnswers(services, versions, apiKey, req) :
       ret' = [op |-> "HTTP", route |-> "GET /v1/services",
               apiKey |-> apiKey, req |-> req,
               status |-> a.status, calls |-> a.calls,
               pre |-> [services |-> services, versions |-> versions]]
  /\ UNCHANGED <<services, versions, clock, walk, reqs>>

\* GET /healthz: HealthHandler.HealthCheck, reached without the key check
HttpHealthz(apiKey) ==
  /\ ret.op = "none"
  /\ ret' = [op |-> "HTTP", route |-> "GET /healthz", apiKey |-> apiKey,
             status |-> IF APIKeyGate("GET /healthz", apiKey) # 0
                        THEN APIKeyGate("GET /healthz", apiKey)
                        ELSE StatusOK,
             calls |-> <<>>,
             pre |-> [services |-> services, versions |-> versions]]
  /\ UNCHANGED <<services, versions, clock, walk, reqs>>

\* GET /readyz: HealthHandler.ReadinessCheck, reached without the key
\* check; Store.Ping answers or fails within the second it is given
HttpReadyz(apiKey) ==
  /\ ret.op = "none"
  /\ \E err \in {NoErr, Timeout} :
       ret' = [op |-> "HTTP", route |-> "GET /readyz", apiKey |-> apiKey,
               status |-> IF APIKeyGate("GET /readyz", apiKey) # 0
                          THEN APIKeyGate("GET /readyz", apiKey)
                          ELSE IF err # NoErr THEN StatusServiceUnavailable
                          ELSE StatusOK,
               calls |-> IF APIKeyGate("GET /readyz", apiKey) # 0
                         THEN <<>> ELSE <<"Ping">>,
               pre |-> [services |-> services, versions |-> versions]]
  /\ UNCHANGED <<services, versions, clock, walk, reqs>>

\* ---- SpecHttp: requests against the routes ----
\* the requests are drawn in slices: the key alone, the identifier
\* alone, the parameters alone
IdRequests ==
  {<<k, raw>> : k \in APIKeys,
                raw \in {RawId("uuid", 4, 1), RawId("text", 0, NilId)}}
    \cup {<<k, raw>> : k \in ValidAPIKeys, raw \in RawIds}

DoHttpGetService ==
  \/ \E q \in IdRequests : HttpGetService(q[1], q[2], "")
  \/ \E k \in ValidAPIKeys, v \in IncludeValues :
       HttpGetService(k, RawId("uuid", 4, 1), v)

DoHttpListVersions == \E q \in IdRequests : HttpListVersions(q[1], q[2])

ServiceBodies ==
  {MalformedBody} \cup {ServiceBody(n, <<"d">>) : n \in CoreNames}

VersionBodies ==
  {MalformedBody} \cup {VersionBody(v) : v \in {<<>>, <<"1">>}}

DoHttpCreateService ==
  \/ \E k \in APIKeys, b \in {MalformedBody, ServiceBody(<<"a", "b">>, <<"d">>)} :
       HttpCreateService(k, "", b)
  \/ \E k \in ValidAPIKeys, c \in ContentTypes :
       HttpCreateService(k, c, ServiceBody(<<"a", "b">>, <<"d">>))
  \/ \E k \in ValidAPIKeys, b \in ServiceBodies :
       HttpCreateService(k, "application/json", b)

DoHttpCreateServiceVersion ==
  \/ \E q \in IdRequests :
       HttpCreateServiceVersion(q[1], q[2], "", VersionBody(<<"1">>))
  \/ \E k \in ValidAPIKeys, c \in ContentTypes, b \in VersionBodies :
       HttpCreateServiceVersion(k, RawId("uuid", 4, 1), c, b)

\* the list requests: one parameter at a time varies from the request
\* without parameters
ListRequests ==
  {ListRequest(l, AbsentInt, "", <<>>, "", <<>>) : l \in RawInts}
    \cup {ListRequest(AbsentInt, f, "", <<>>, "", <<>>) : f \in RawInts}
    \cup {ListRequest(AbsentInt, AbsentInt, k, <<>>, "", <<>>) : k \in RawSorts}
    \cup {ListRequest(AbsentInt, AbsentInt, "", o, "", <<>>) : o \in RawOrders}
    \cup {ListRequest(AbsentInt, AbsentInt, "", <<>>, v, <<>>) : v \in IncludeValues}
    \cup {ListRequest(AbsentInt, AbsentInt, "", <<>>, "", q) : q \in RawQueries}

DoHttpListServices ==
  \/ \E k \in APIKeys, l \in {AbsentInt, RawInt("text", 0, 3)} :
       HttpListServices(k, ListRequest(l, AbsentInt, "", <<>>, "", <<>>))
  \/ \E k \in ValidAPIKeys, req \in ListRequests : HttpListServices(k, req)

DoHttpHealthz == \E k \in APIKeys : HttpHealthz(k)

DoHttpReadyz == \E k \in APIKeys : HttpReadyz(k)

NextHttp ==
  \/ DoHttpHealthz
  \/ DoHttpReadyz
  \/ DoHttpListServices
  \/ DoHttpGetService
  \/ DoHttpListVersions
  \/ DoHttpCreateService
  \/ DoHttpCreateServiceVersion
  \/ Discard

SpecHttp == Init /\ [][NextHttp]_vars

\* ---- SpecList: the parameters of ListServices ----
\* the calls that vary the sort key and the sort order, the page, and the
\* search text
ListCalls ==
  {[q |-> <<>>, sortKey |-> k, order |-> o, limit |-> l, offset |-> f] :
     k \in SortKeys, o \in {Asc, Desc}, l \in {MaxPage}, f \in {0}}
  \cup
  {[q |-> <<>>, sortKey |-> "created_at", order |-> o, limit |-> l, offset |-> f] :
     o \in Orders, l \in {MaxPage}, f \in {0}}
  \cup
  {[q |-> <<>>, sortKey |-> "created_at", order |-> o, limit |-> l, offset |-> f] :
     o \in {Asc, Desc}, l \in Limits, f \in {0}}
  \cup
  {[q |-> <<>>, sortKey |-> "created_at", order |-> o, limit |-> l, offset |-> f] :
     o \in {Asc, Desc}, l \in {1}, f \in Offsets}
  \cup
  {[q |-> q, sortKey |-> "name", order |-> o, limit |-> l, offset |-> f] :
     q \in Queries, o \in {Asc, Desc}, l \in {MaxPage}, f \in {0, 1}}

CreateAnyService == \E name \in Names, description \in Descriptions :
                      CreateService(name, description)

ListAnyServices == \E c \in ListCalls :
                     ListServices(c.q, c.sortKey, c.order, c.limit, c.offset, FALSE)

NextList ==
  \/ CreateAnyService
  \/ ListAnyServices
  \/ Discard

SpecList == Init /\ [][NextList]_vars

\* ---- SpecWalk: a client reads the catalog page by page ----
\* (the walk of TestStore_ListServices/Pagination: limit P at offsets 0, P,
\* 2P, ... until the first empty page), while services are being created
\* the walk sorts on the unique name, or on created_at, where services tie,
\* in both directions
WalkSortings == {<<"name", Asc>>, <<"created_at", Asc>>, <<"created_at", Desc>>}

\* the smallest page and the largest the store grants
PageSizes == {1, MaxPage}

ItemIds(items) == [i \in 1..Len(items.elems) |-> items.elems[i].id]

\* CreateService called by another client, whose result the walking client
\* does not see
CreateServiceElsewhere(name, description) ==
  /\ \E o \in CreateServiceOutcomes(services, clock, name, description) :
       /\ services' = o.services
       /\ clock' = o.clock
  /\ UNCHANGED <<versions, ret, walk, reqs>>

StartWalk(sortKey, order, P) ==
  /\ walk.state = "idle"
  /\ walk' = [state |-> "walking", sortKey |-> sortKey, order |-> order,
              limit |-> P, offset |-> 0, acc |-> <<>>,
              start |-> ServiceIdSet(services)]
  /\ UNCHANGED <<services, versions, clock, ret, reqs>>

WalkStep ==
  /\ walk.state = "walking"
  /\ \E r \in ListServicesResults(services, versions, <<>>, walk.sortKey,
                                  walk.order, walk.limit, walk.offset, FALSE) :
       walk' = IF Len(r.items.elems) = 0
               THEN [walk EXCEPT !.state = "done"]
               ELSE [walk EXCEPT !.acc = walk.acc \o ItemIds(r.items),
                                 !.offset = walk.offset + walk.limit]
  /\ UNCHANGED <<services, versions, clock, ret, reqs>>

DoStartWalk == \E sorting \in WalkSortings, P \in PageSizes :
                 StartWalk(sorting[1], sorting[2], P)

\* the other clients create services before and during the walk; the walk is
\* judged on the store it finished on
CreateAnyServiceElsewhere ==
  /\ walk.state # "done"
  /\ \E name \in Names \ {<<>>}, description \in Descriptions :
       CreateServiceElsewhere(name, description)

NextWalk ==
  \/ CreateAnyServiceElsewhere
  \/ DoStartWalk
  \/ WalkStep

SpecWalk == Init /\ [][NextWalk]_vars

\* ---- SpecHydrate: writes between the two queries of a hydrated listing ----
\* ListServices(includeVersions = true) up to the end of its parent query:
\* a listing without rows returns at once, any other goes on to the
\* child query with the rows it scanned
ListServicesParentQuery(q, sortKey, order, limit, offset) ==
  /\ ret.op = "none"
  /\ reqs.flying = {}
  /\ \E rows \in ServicesQuery(services, q, SortColumn(sortKey),
                                SortDirection(order), ClampLimit(limit), offset) :
       LET items == ScanAll(NilSlice, [i \in 1..Len(rows) |-> ScanService(rows[i])])
       IN IF NeedsVersionQuery(TRUE, items)
          THEN /\ reqs' = [reqs EXCEPT !.flying =
                             {[kind |-> "list", items |-> items,
                               services |-> services, versions |-> versions]}]
               /\ UNCHANGED ret
          ELSE /\ ret' = [op |-> "ListServicesHydrated", parents |-> items,
                          items |-> AssignEmpty(items),
                          services |-> services, versions |-> versions]
               /\ UNCHANGED reqs
  /\ UNCHANGED <<services, versions, clock, walk>>

\* the child query of the listing in flight, on the tables as they are
\* now, and the assignment of its rows to the parents
ListServicesChildQuery ==
  /\ ret.op = "none"
  /\ \E f \in {g \in reqs.flying : g.kind = "list"} :
       \E vrows \in VersionsBatchQuery(versions,
                      {f.items.elems[i].id : i \in 1..Len(f.items.elems)}) :
         /\ ret' = [op |-> "ListServicesHydrated", parents |-> f.items,
                    items |-> AssignVersions(f.items, vrows),
                    services |-> f.services, versions |-> f.versions]
         /\ reqs' = [reqs EXCEPT !.flying = reqs.flying \ {f}, !.started = 0]
  /\ UNCHANGED <<services, versions, clock, walk>>

DoListServicesParentQuery ==
  \E order \in {Asc} :
    ListServicesParentQuery(<<>>, "created_at", order, 0, 0)

\* the other clients' creates that commit while no listing is in flight
\* fill the store; of those that commit between the two queries of a
\* listing at most MaxWrites are followed
WriteElsewhere(create) ==
  IF reqs.flying = {}
  THEN create /\ UNCHANGED reqs
  ELSE /\ reqs.started < MaxWrites
       /\ create
       /\ reqs' = [reqs EXCEPT !.started = reqs.started + 1]

\* the service creates are followed at the clock reading they find: the
\* times of a service play no part in the child query
DoCreateServiceElsewhere ==
  \E name \in CoreNames \ {<<>>}, description \in Descriptions :
    WriteElsewhere(
      \E o \in CreateServiceOutcomes(services, clock, name, description) :
        /\ o.err = NoErr
        /\ o.clock = clock
        /\ services' = o.services
        /\ clock' = o.clock
        /\ UNCHANGED <<versions, ret, walk>>)

DoCreateServiceVersionElsewhere ==
  \E service_id \in ServiceIdSet(services), version \in VersionTexts \ {<<>>} :
    WriteElsewhere(
      \E r \in CreateServiceVersionRuns(services, versions, clock,
                  VersionCandidate(NilId, service_id, version, 0)) :
        /\ r.err = NoErr
        /\ versions' = r.versions
        /\ clock' = r.clock
        /\ UNCHANGED <<services, ret, walk>>)

NextHydrate ==
  \/ DoCreateServiceElsewhere
  \/ DoCreateServiceVersionElsewhere
  \/ DoListServicesParentQuery
  \/ ListServicesChildQuery
  \/ Discard

SpecHydrate == Init /\ [][NextHydrate]_vars

\* ==== properties ====

\* C1 -- name uniqueness.  No two stored services have the same name
\* (compared case-sensitively).  A CreateService whose name is already stored
\* fails with the unique violation of services.name (DuplicateName) and
\* leaves both tables as they were; a CreateService of a non-empty name that
\* is not stored yet succeeds and stores the service under the identifier
\* it reports.
C1_NameUniqueness ==
  /\ \A x, y \in services : x.name = y.name => x = y
  /\ ret.op = "CreateService" =>
       IF \E x \in ret.pre.services : x.name = ret.name
       THEN /\ ret.err = UniqueViolation
            /\ services = ret.pre.services
            /\ versions = ret.pre.versions
       ELSE ret.name # <<>> =>
              /\ ret.err = NoErr
              /\ \E x \in services \ ret.pre.services :
                   x.name = ret.name /\ x.id = ret.id

\* a duplicate create was refused while two names that differ only in case
\* are both stored
C1_Witness ==
  /\ ret.op = "CreateService"
  /\ ret.err = UniqueViolation
  /\ \E x, y \in services : x.name # y.name /\ Lower(x.name) = Lower(y.name)

\* C2 -- version uniqueness.  No two stored versions have the same
\* (service_id, version) pair.  A CreateServiceVersion whose pair is already
\* stored fails with the unique violation (DuplicateVersion) and leaves both
\* tables as they were; a CreateServiceVersion of a non-empty version for a
\* stored service whose pair is not stored yet succeeds, also when another
\* service already has that version text.
C2_VersionUniqueness ==
  /\ \A v, w \in versions :
       v.service_id = w.service_id /\ v.version = w.version => v = w
  /\ ret.op = "CreateServiceVersion" =>
       IF \E v \in ret.pre.versions :
            v.service_id = ret.service_id /\ v.version = ret.version
       THEN /\ ret.err = UniqueViolation
            /\ services = ret.pre.services
            /\ versions = ret.pre.versions
       ELSE (ret.version # <<>> /\ ret.service_id \in ServiceIdSet(ret.pre.services)) =>
              /\ ret.err = NoErr
              /\ \E v \in versions \ ret.pre.versions :
                   /\ v.service_id = ret.service_id
                   /\ v.version = ret.version
                   /\ v.id = ret.id

\* the second create of a stored pair was refused
C2_Witness ==
  /\ ret.op = "CreateServiceVersion"
  /\ ret.err = UniqueViolation
  /\ \E v \in versions : v.service_id = ret.service_id /\ v.version = ret.version

C4_PaginationComplete ==
  (/\ walk.state = "done"
   /\ walk.limit <= MaxPage
   /\ ServiceIdSet(services) = walk.start) =>
    /\ Len(walk.acc) = Cardinality(services)
    /\ {walk.acc[i] : i \in 1..Len(walk.acc)} = ServiceIdSet(services)

\* a finished walk over an unchanged store of more services than fit on one
\* page, sorted on created_at while two services share their created_at
C4_Witness ==
  /\ walk.state = "done"
  /\ walk.limit <= MaxPage
  /\ walk.sortKey = "created_at"
  /\ ServiceIdSet(services) = walk.start
  /\ Cardinality(services) > walk.limit
  /\ \E x, y \in services : x # y /\ x.created_at = y.created_at

\* x is listed before y: on the column, then on the identifier, both in the
\* direction dir
C5_Precedes(col, dir, x, y) ==
  LET tie == ~ ColLess(col, x, y) /\ ~ ColLess(col, y, x)
  IN IF dir = "ASC"
     THEN ColLess(col, x, y) \/ (tie /\ x.id < y.id)
     ELSE ColLess(col, y, x) \/ (tie /\ x.id > y.id)

\* C5 -- total order of listings.  The k-th service of a page is the
\* matching row that exactly offset + k - 1 matching rows precede, where a
\* row precedes another on the resolved sort column and, on equal values,
\* on the identifier in the same direction; so the store content and the
\* parameters determine one single result.
C5_TotalOrder ==
  ret.op = "ListServices" =>
    LET col == SortColumn(ret.sortKey)
        dir == SortDirection(ret.order)
        rows == {x \in services : WhereName(ret.q, x)}
        items == ret.items.elems
    IN /\ ret.err = NoErr
       /\ \A k \in 1..Len(items) :
            \E x \in rows :
              /\ x.id = items[k].id
              /\ Cardinality({y \in rows : C5_Precedes(col, dir, y, x)})
                   = ret.offset + k - 1
       /\ Cardinality(ListServicesResults(services, versions, ret.q, ret.sortKey,
                        ret.order, ret.limit, ret.offset, ret.includeVersions)) = 1

\* a descending listing on created_at returned two services of equal
\* created_at, the larger identifier first
C5_Witness ==
  /\ ret.op = "ListServices"
  /\ ret.sortKey = "created_at"
  /\ SortDirection(ret.order) = "DESC"
  /\ Len(ret.items.elems) >= 2
  /\ ret.items.elems[1].created_at = ret.items.elems[2].created_at
  /\ ret.items.elems[1].id > ret.items.elems[2].id

\* C6 -- sort-key fallback.  A ListServices whose sortKey is none of name,
\* created_at, updated_at (the empty string included) does not fail and
\* returns the one result that the same call with sortKey = "name" returns.
C6_SortKeyFallback ==
  (ret.op = "ListServices" /\ ret.sortKey \notin {"name", "created_at", "updated_at"}) =>
    /\ ret.err = NoErr
    /\ ListServicesResults(services, versions, ret.q, "name", ret.order,
                           ret.limit, ret.offset, ret.includeVersions)
         = {[err |-> ret.err, items |-> ret.items]}

\* an unrecognized sort key returned two services in name order although
\* their created_at order is the opposite
C6_Witness ==
  /\ ret.op = "ListServices"
  /\ ret.sortKey \in {"bogus", ""}
  /\ SortDirection(ret.order) = "ASC"
  /\ Len(ret.items.elems) >= 2
  /\ TextLess(ret.items.elems[1].name, ret.items.elems[2].name)
  /\ ret.items.elems[1].created_at > ret.items.elems[2].created_at

\* the text is d-e-s-c in any mix of upper and lower case
C7_IsDesc(order) ==
  /\ Len(order) = 4
  /\ order[1] \in {"d", "D"}
  /\ order[2] \in {"e", "E"}
  /\ order[3] \in {"s", "S"}
  /\ order[4] \in {"c", "C"}

\* C7 -- sort-order fallback.  ListServices never fails because of
\* sortOrder; it returns the one result of the same call with sortOrder =
\* "desc" when sortOrder is desc in any letter case, and the one result of
\* the same call with sortOrder = "asc" for every other text; the rows are
\* then non-increasing, respectively non-decreasing, on the sort column.
C7_SortOrderFallback ==
  ret.op = "ListServices" =>
    LET desc == C7_IsDesc(ret.order)
        col == SortColumn(ret.sortKey)
        items == ret.items.elems
    IN /\ ret.err = NoErr
       /\ ListServicesResults(services, versions, ret.q, ret.sortKey,
                              IF desc THEN Desc ELSE Asc,
                              ret.limit, ret.offset, ret.includeVersions)
            = {[err |-> ret.err, items |-> ret.items]}
       /\ \A i, j \in 1..Len(items) :
            i < j => IF desc THEN ~ ColLess(col, items[i], items[j])
                             ELSE ~ ColLess(col, items[j], items[i])

\* sortOrder "Desc" returned two services, the larger sort value first
C7_Witness ==
  /\ ret.op = "ListServices"
  /\ ret.order = <<"D", "e", "s", "c">>
  /\ Len(ret.items.elems) >= 2
  /\ ColLess(SortColumn(ret.sortKey), ret.items.elems[2], ret.items.elems[1])

\* C8 -- limit clamp.  No ListServices returns more services than the
\* maximum page size, nor more than its limit when that lies in 1..maximum;
\* a limit <= 0 or above the maximum is no error and gives the one result of
\* the same call with limit = maximum page size.
C8_LimitClamp ==
  ret.op = "ListServices" =>
    /\ Len(ret.items.elems) <= MaxPage
    /\ (ret.limit \in 1..MaxPage => Len(ret.items.elems) <= ret.limit)
    /\ (ret.limit <= 0 \/ ret.limit > MaxPage) =>
         /\ ret.err = NoErr
         /\ ListServicesResults(services, versions, ret.q, ret.sortKey, ret.order,
                                MaxPage, ret.offset, ret.includeVersions)
              = {[err |-> ret.err, items |-> ret.items]}

\* a limit above the maximum returned a full page while more services match
C8_Witness ==
  /\ ret.op = "ListServices"
  /\ ret.limit > MaxPage
  /\ ret.q = <<>>
  /\ ret.offset = 0
  /\ Len(ret.items.elems) = MaxPage
  /\ Cardinality(services) > MaxPage

\* p is a literal prefix of s
C9_StartsWith(s, p) == Len(p) <= Len(s) /\ SubSeq(s, 1, Len(p)) = p

\* the number of rows on the page at offset off of n rows, lim rows a page
C9_PageLen(n, lim, off) == IF n <= off THEN 0 ELSE Min(lim, n - off)

\* C9 -- prefix search.  With a non-empty searchText the page holds only
\* services whose lower-cased name starts with the lower-cased searchText,
\* taken literally, and is the page of exactly those services; an empty
\* searchText filters nothing.
C9_LiteralPrefixSearch ==
  ret.op = "ListServices" =>
    LET rows == IF ret.q = <<>> THEN services
                ELSE {x \in services : C9_StartsWith(Lower(x.name), Lower(ret.q))}
        items == ret.items.elems
    IN /\ \A k \in 1..Len(items) : items[k].id \in ServiceIdSet(rows)
       /\ Len(items) = C9_PageLen(Cardinality(rows), ClampLimit(ret.limit), ret.offset)

\* C10 -- no hydration by default.  With includeVersions = false every
\* service that ListServices returns, and the service that GetService
\* returns, carries a Versions slice that is empty and not nil, however many
\* versions are stored for it.
C10_NoHydrationEmpty ==
  /\ (ret.op = "ListServices" /\ ~ ret.includeVersions) =>
       \A k \in 1..Len(ret.items.elems) : ret.items.elems[k].Versions = EmptySlice
  /\ (ret.op = "GetService" /\ ~ ret.includeVersions /\ ret.res.found) =>
       ret.res.svc.Versions = EmptySlice

\* an unhydrated listing returned a service for which a version is stored
C10_Witness ==
  /\ ret.op = "ListServices"
  /\ ~ ret.includeVersions
  /\ \E k \in 1..Len(ret.items.elems) :
       /\ ret.items.elems[k].Versions = EmptySlice
       /\ \E v \in versions : v.service_id = ret.items.elems[k].id

\* the services of a listing without their Versions
C11_Parents(items) ==
  [i \in 1..Len(items.elems) |-> [items.elems[i] EXCEPT !.Versions = EmptySlice]]

\* vs runs from the newest version to the oldest, the higher identifier
\* first among equal creation times
C11_NewestFirst(vs) ==
  \A i, j \in 1..Len(vs) :
    i < j => \/ vs[i].created_at > vs[j].created_at
             \/ vs[i].created_at = vs[j].created_at /\ vs[i].id > vs[j].id

\* C11 -- batched hydration.  A hydrated listing returns the services of
\* the unhydrated listing in the same order; every returned service carries
\* exactly the stored versions of its own identifier, each once, newest
\* first (created_at descending, then id descending), as a non-nil slice
\* that is empty when it has none; and these are the versions that
\* ListVersions returns for that service.
C11_HydrationCorrect ==
  (ret.op = "ListServices" /\ ret.includeVersions) =>
    /\ ret.err = NoErr
    /\ \A r \in ListServicesResults(services, versions, ret.q, ret.sortKey,
                                     ret.order, ret.limit, ret.offset, FALSE) :
         /\ r.err = NoErr
         /\ C11_Parents(r.items) = C11_Parents(ret.items)
    /\ \A i \in 1..Len(ret.items.elems) :
         LET p == ret.items.elems[i]
             vs == p.Versions.elems
             stored == {v \in versions : v.service_id = p.id}
         IN /\ ~ p.Versions.isNil
            /\ {vs[k] : k \in 1..Len(vs)} = stored
            /\ Len(vs) = Cardinality(stored)
            /\ C11_NewestFirst(vs)
            /\ \A lv \in ListVersionsResults(versions, p.id) :
                 lv.err = NoErr /\ lv.versions.elems = vs

\* a hydrated listing of two services: one with two versions of the same
\* creation time, one with no version
C11_Witness ==
  /\ ret.op = "ListServices"
  /\ ret.includeVersions
  /\ Len(ret.items.elems) = 2
  /\ \E i, j \in 1..2 :
       /\ Len(ret.items.elems[i].Versions.elems) = 2
       /\ ret.items.elems[i].Versions.elems[1].created_at
            = ret.items.elems[i].Versions.elems[2].created_at
       /\ ret.items.elems[j].Versions = EmptySlice

\* C12 as stated -- a hydrated listing sends two queries whatever the
\* number of returned services, zero included; an unhydrated listing and an
\* unhydrated GetService send one; a hydrated GetService of a stored
\* service sends two.
C12_TwoQueriesAlways ==
  /\ ret.op = "ListServices" =>
       ret.queries = IF ret.includeVersions THEN 2 ELSE 1
  /\ (ret.op = "GetService" /\ ~ ret.includeVersions) => ret.res.queries = 1
  /\ (ret.op = "GetService" /\ ret.includeVersions /\ ret.res.found) =>
       ret.res.queries = 2

\* C12 -- round trips.  A hydrated listing sends two queries when it
\* returns at least one service, whatever the page size, and one query when
\* it returns none; an unhydrated listing and an unhydrated GetService send
\* one; a hydrated GetService of a stored service sends two.
C12_RoundTrips ==
  /\ ret.op = "ListServices" =>
       ret.queries = IF ret.includeVersions /\ Len(ret.items.elems) > 0
                     THEN 2 ELSE 1
  /\ (ret.op = "GetService" /\ ~ ret.includeVersions) => ret.res.queries = 1
  /\ (ret.op = "GetService" /\ ret.includeVersions /\ ret.res.found) =>
       ret.res.queries = 2

\* a hydrated listing returned no service although services are stored
C12_Witness ==
  /\ ret.op = "ListServices"
  /\ ret.includeVersions
  /\ Len(ret.items.elems) = 0
  /\ services # {}
  /\ ret.queries = 1

\* C13 -- GetService absence.  For an identifier of no stored service
\* GetService returns the nil service with a nil error after its one
\* query, with and without hydration; for the identifier of a stored
\* service it returns that service's stored name, description and
\* timestamps.
C13_GetServiceAbsent ==
  ret.op = "GetService" =>
    IF ret.id \in ServiceIdSet(services)
    THEN /\ ret.res.err = NoErr
         /\ ret.res.found
         /\ \E x \in services :
              /\ x.id = ret.id
              /\ ret.res.svc.id = x.id
              /\ ret.res.svc.name = x.name
              /\ ret.res.svc.description = x.description
              /\ ret.res.svc.created_at = x.created_at
              /\ ret.res.svc.updated_at = x.updated_at
    ELSE /\ ret.res.err = NoErr
         /\ ~ ret.res.found
         /\ ret.res.queries = 1

\* a hydrated GetService of an identifier that no stored service carries,
\* while other services are stored
C13_Witness ==
  /\ ret.op = "GetService"
  /\ ret.includeVersions
  /\ ret.id \notin ServiceIdSet(services)
  /\ services # {}
  /\ ~ ret.res.found

\* the version sequences that ListVersions and the hydrated GetService
\* return for the service id on the tables
C14_Listings(svcs, vers, id) ==
  {r.versions.elems : r \in ListVersionsResults(vers, id)}
    \cup {r.svc.Versions.elems :
            r \in {g \in GetServiceResults(svcs, vers, id, TRUE) : g.found}}

\* the sequence vs without its k-th element
C14_Without(vs, k) ==
  [i \in 1..(Len(vs) - 1) |-> IF i < k THEN vs[i] ELSE vs[i + 1]]

\* C14 as stated -- newest first in creation order.  After a successful
\* CreateServiceVersion the version just created is the first of its
\* service's versions in ListVersions and in the hydrated GetService, also
\* when its creation timestamp equals that of an earlier version, and the
\* earlier versions follow in the order they had before.
C14_ReverseCreationOrder ==
  (ret.op = "CreateServiceVersion" /\ ret.err = NoErr) =>
    \A vs \in C14_Listings(services, versions, ret.service_id) :
      /\ Len(vs) >= 1
      /\ vs[1].id = ret.id
      /\ Tail(vs) \in C14_Listings(ret.pre.services, ret.pre.versions,
                                   ret.service_id)

\* C14 -- newest first by creation time.  After a successful
\* CreateServiceVersion, ListVersions and the hydrated GetService list the
\* version just created before every version of its service with an
\* earlier creation timestamp; the only versions listed before it have the
\* same creation timestamp and a higher identifier; and the earlier
\* versions keep the order they had before.
C14_NewestFirstByTime ==
  (ret.op = "CreateServiceVersion" /\ ret.err = NoErr) =>
    \A vs \in C14_Listings(services, versions, ret.service_id) :
      \E k \in 1..Len(vs) :
        /\ vs[k].id = ret.id
        /\ \A j \in 1..(k - 1) :
             vs[j].created_at = vs[k].created_at /\ vs[j].id > vs[k].id
        /\ \A j \in (k + 1)..Len(vs) : vs[j].created_at <= vs[k].created_at
        /\ C14_Without(vs, k) \in C14_Listings(ret.pre.services,
                                                ret.pre.versions, ret.service_id)

\* a version was created at the creation time of an earlier version of its
\* service and is listed after it
C14_Witness ==
  /\ ret.op = "CreateServiceVersion"
  /\ ret.err = NoErr
  /\ \E vs \in C14_Listings(services, versions, ret.service_id) :
       /\ Len(vs) = 2
       /\ vs[2].id = ret.id
       /\ vs[1].created_at = vs[2].created_at

\* C15 -- ListVersions without existence check.  For an identifier of no
\* stored service ListVersions returns no version and no error, the very
\* result it returns for a stored service without versions; every version
\* it returns carries the requested service_id.
C15_ListVersionsNoExistenceCheck ==
  ret.op = "ListVersions" =>
    /\ ret.res.err = NoErr
    /\ \A k \in 1..Len(ret.res.versions.elems) :
         ret.res.versions.elems[k].service_id = ret.id
    /\ ret.id \notin ServiceIdSet(services) =>
         /\ Len(ret.res.versions.elems) = 0
         /\ \A x \in services :
              (~ \E v \in versions : v.service_id = x.id) =>
                ListVersionsResults(versions, x.id) = {ret.res}

\* ListVersions of an identifier of no stored service, while a service
\* without versions and a service with versions are stored
C15_Witness ==
  /\ ret.op = "ListVersions"
  /\ ret.id \notin ServiceIdSet(services)
  /\ \E x \in services : ~ \E v \in versions : v.service_id = x.id
  /\ versions # {}
  /\ Len(ret.res.versions.elems) = 0

\* C17 -- non-empty backstop.  CreateService with an empty name and
\* CreateServiceVersion with an empty version, called on the store itself,
\* fail with the check violation and leave both tables as they were; no
\* stored service has an empty name and no stored version an empty version.
C17_NonEmptyBackstop ==
  /\ (ret.op = "CreateService" /\ ret.name = <<>>) =>
       /\ ret.err = CheckViolation
       /\ services = ret.pre.services
       /\ versions = ret.pre.versions
  /\ (ret.op = "CreateServiceVersion" /\ ret.version = <<>>) =>
       /\ ret.err = CheckViolation
       /\ services = ret.pre.services
       /\ versions = ret.pre.versions
  /\ \A x \in services : x.name # <<>>
  /\ \A v \in versions : v.version # <<>>

\* a version with an empty version text was refused for a stored service
\* that already has a version
C17_Witness ==
  /\ ret.op = "CreateServiceVersion"
  /\ ret.version = <<>>
  /\ ret.service_id \in ServiceIdSet(services)
  /\ \E v \in versions : v.service_id = ret.service_id
  /\ ret.err = CheckViolation

\* C16 -- identifier overwrite on create.  CreateService and
\* CreateServiceVersion succeed or fail on the name (the pair and the
\* service) alone, whatever identifier and timestamps the candidate
\* carries; the identifier they report is one that no stored row carried,
\* the timestamps are read from the clock during the call, and on success
\* the one row added is stored under exactly the reported identifier and
\* timestamps.  So creates passing one same supplied identifier with
\* different names (versions) all succeed under distinct identifiers.
C16_IdentifierOverwrite ==
  /\ ret.op = "CreateService" =>
       LET c == ret.candidate
           x == ret.service
       IN /\ ret.err = (IF c.Name = <<>> THEN CheckViolation
                        ELSE IF \E y \in ret.pre.services : y.name = c.Name
                             THEN UniqueViolation
                        ELSE NoErr)
          /\ x.ID # NilId
          /\ x.ID \notin ServiceIdSet(ret.pre.services)
          /\ ret.pre.clock <= x.CreatedAt
          /\ x.CreatedAt <= x.UpdatedAt
          /\ ret.err = NoErr =>
               services = ret.pre.services \cup
                 {ServiceRow(x.ID, c.Name, c.Description, x.CreatedAt, x.UpdatedAt)}
  /\ ret.op = "CreateServiceVersion" =>
       LET c == ret.candidate
           v == ret.serviceVersion
       IN /\ ret.err = (IF c.Version = <<>> THEN CheckViolation
                        ELSE IF \E w \in ret.pre.versions :
                                  w.service_id = c.ServiceID /\ w.version = c.Version
                             THEN UniqueViolation
                        ELSE IF c.ServiceID \notin ServiceIdSet(ret.pre.services)
                             THEN ForeignKeyViolation
                        ELSE NoErr)
          /\ v.ID # NilId
          /\ v.ID \notin {w.id : w \in ret.pre.versions}
          /\ ret.pre.clock <= v.CreatedAt
          /\ ret.err = NoErr =>
               versions = ret.pre.versions \cup
                 {VersionRow(v.ID, c.ServiceID, c.Version, v.CreatedAt)}

\* a service was created from a candidate that carried the identifier of a
\* stored service and a creation time the clock had passed
C16_Witness ==
  /\ ret.op = "CreateService"
  /\ ret.err = NoErr
  /\ ret.candidate.ID \in ServiceIdSet(ret.pre.services)
  /\ ret.candidate.CreatedAt < ret.pre.clock
  /\ Cardinality(services) = 2

\* C18 -- no internal retry.  A create under a deadline sends at most one
\* INSERT.  When it times out, the tables are as before or hold the one new
\* row in full, and never two rows of the name (the pair).  The store
\* reports a duplicate only for a name (a pair) that was stored before the
\* call.  A repeated create whose earlier attempt had been applied stores
\* nothing and is answered, unless it times out too, with the duplicate
\* failure.
C18_NoInternalRetry ==
  /\ ret.op = "CreateService" =>
       LET x == ret.service
           row == ServiceRow(x.ID, x.Name, x.Description, x.CreatedAt, x.UpdatedAt)
           stored == \E y \in ret.pre.services : y.name = x.Name
       IN /\ ret.inserts <= 1
          /\ versions = ret.pre.versions
          /\ services \in {ret.pre.services, ret.pre.services \cup {row}}
          /\ Cardinality({y \in services : y.name = x.Name}) <= 1
          /\ ret.err = UniqueViolation => stored
          /\ (ret.retry /\ ret.applied) =>
               /\ stored
               /\ services = ret.pre.services
               /\ ret.err \in {UniqueViolation, Timeout}
  /\ ret.op = "CreateServiceVersion" =>
       LET v == ret.serviceVersion
           row == VersionRow(v.ID, v.ServiceID, v.Version, v.CreatedAt)
           stored == \E w \in ret.pre.versions :
                       w.service_id = v.ServiceID /\ w.version = v.Version
       IN /\ ret.inserts <= 1
          /\ services = ret.pre.services
          /\ versions \in {ret.pre.versions, ret.pre.versions \cup {row}}
          /\ Cardinality({w \in versions : w.service_id = v.ServiceID
                                              /\ w.version = v.Version}) <= 1
          /\ ret.err = UniqueViolation => stored
          /\ (ret.retry /\ ret.applied) =>
               /\ stored
               /\ versions = ret.pre.versions
               /\ ret.err \in {UniqueViolation, Timeout}

\* the repeat of a create that had timed out after its row was stored is
\* answered with the duplicate failure, and the name is stored once
C18_Witness ==
  /\ ret.op = "CreateService"
  /\ ret.retry
  /\ ret.applied
  /\ ret.err = UniqueViolation
  /\ Cardinality({y \in services : y.name = ret.service.Name}) = 1

\* C19 -- concurrent creates.  Of the answered CreateService requests for
\* one name, however their statements interleaved, exactly one succeeded
\* and every other failed with the unique violation, and the name is stored
\* in exactly one row; likewise for the answered CreateServiceVersion
\* requests for one pair of service and version.
C19_ConcurrentCreates ==
  /\ \A n \in Names :
       LET D == {d \in reqs.done : d.kind = "service" /\ d.row.name = n}
       IN D # {} =>
            /\ Cardinality({d \in D : d.err = NoErr}) = 1
            /\ \A d \in D : d.err \in {NoErr, UniqueViolation}
            /\ Cardinality({x \in services : x.name = n}) = 1
  /\ \A s \in Ids, t \in VersionTexts :
       LET D == {d \in reqs.done : /\ d.kind = "version"
                                    /\ d.row.service_id = s
                                    /\ d.row.version = t}
       IN D # {} =>
            /\ Cardinality({d \in D : d.err = NoErr}) = 1
            /\ \A d \in D : d.err \in {NoErr, UniqueViolation}
            /\ Cardinality({v \in versions : v.service_id = s /\ v.version = t}) = 1

\* two requests for one pair were in flight together: the one whose INSERT
\* came first succeeded, the other met the unique violation
C19_Witness ==
  \E d, e \in reqs.done :
    /\ d.kind = "version"
    /\ e.kind = "version"
    /\ d.row.service_id = e.row.service_id
    /\ d.row.version = e.row.version
    /\ d.err = NoErr
    /\ d.raced
    /\ e.err = UniqueViolation

\* C20: on the three routes that take an identifier, a request that
\* passed the API key check and whose path id is empty, is not a UUID, or
\* is a UUID of a version other than 4 is answered with 400, no store
\* operation is invoked for it and the tables are as they were; on
\* GET /v1/services/{id} a version 4 UUID that no stored service has,
\* with an include_versions the route accepts, is answered with 404
\* after one call of GetService.
C20_IdRoutes ==
  {"GET /v1/services/{id}", "GET /v1/services/{id}/versions",
   "POST /v1/services/{id}/versions"}

C20_BadId(raw) ==
  raw.form = "empty" \/ raw.form = "text" \/ raw.version # 4

C20_ValidationPrecedesEngine ==
  (ret.op = "HTTP" /\ ret.route \in C20_IdRoutes
     /\ ret.apiKey \in ValidAPIKeys) =>
    /\ C20_BadId(ret.raw) =>
         /\ ret.status = StatusBadRequest
         /\ ret.calls = <<>>
         /\ services = ret.pre.services
         /\ versions = ret.pre.versions
    /\ (/\ ret.route = "GET /v1/services/{id}"
        /\ ~ C20_BadId(ret.raw)
        /\ ret.include_versions \in {"", "true", "false"}
        /\ ~ \E x \in ret.pre.services : x.id = ret.raw.id) =>
         /\ ret.status = StatusNotFound
         /\ ret.calls = <<"GetService">>

\* a create of a version under a version 1 UUID was refused with 400
\* while services are stored
C20_Witness ==
  /\ ret.op = "HTTP"
  /\ ret.route = "POST /v1/services/{id}/versions"
  /\ ret.apiKey \in ValidAPIKeys
  /\ ret.raw = RawId("uuid", 1, NilId)
  /\ ret.body = VersionBody(<<"1">>)
  /\ ret.status = StatusBadRequest
  /\ ret.calls = <<>>
  /\ services # {}

\* C21 as stated -- list-parameter validation precedes the engine.  A
\* GET /v1/services that passed the API key check is answered with 400
\* without a call of Store.ListServices when limit or offset is present
\* and no parseable non-negative integer, or sort, order or
\* include_versions is present with a value outside its set; and every
\* request whose limit and offset are absent or parseable non-negative
\* integers, whose sort, order and include_versions are absent or in
\* their sets, and whose search text the boundary accepts, is handed to
\* Store.ListServices.
C21_NonNegative(raw) ==
  raw.form = "absent" \/ (raw.form = "int" /\ raw.value >= 0)

C21_InSets(req) ==
  /\ req.sort \in {"", "name", "created_at", "updated_at"}
  /\ req.order \in {<<>>, Asc, Desc}
  /\ req.include_versions \in {"", "true", "false"}

C21_ListValidationExact ==
  (ret.op = "HTTP" /\ ret.route = "GET /v1/services"
     /\ ret.apiKey \in ValidAPIKeys) =>
    /\ (~ C21_NonNegative(ret.req.limit) \/ ~ C21_NonNegative(ret.req.offset)
          \/ ~ C21_InSets(ret.req)) =>
         (ret.status = StatusBadRequest /\ ret.calls = <<>>)
    /\ (/\ C21_NonNegative(ret.req.limit)
        /\ C21_NonNegative(ret.req.offset)
        /\ C21_InSets(ret.req)
        /\ Len(ret.req.q) <= MaxQueryLen) =>
         ret.calls = <<"ListServices">>

\* C22 -- authentication gate.  A request to any route other than
\* /healthz and /readyz whose X-API-Key is missing or not among the
\* configured keys is answered with 401, whatever else it carries; no
\* validation answer (400) is given, no store operation is invoked and
\* the tables are as they were.  /healthz and /readyz are answered
\* without a key, and never with 401.
C22_AuthenticationGate ==
  ret.op = "HTTP" =>
    /\ (ret.route \notin OpenPaths /\ ret.apiKey \notin ValidAPIKeys) =>
         /\ ret.status = StatusUnauthorized
         /\ ret.calls = <<>>
         /\ services = ret.pre.services
         /\ versions = ret.pre.versions
    /\ (ret.route \notin OpenPaths /\ ret.apiKey \in ValidAPIKeys) =>
         ret.status # StatusUnauthorized
    /\ ret.route = "GET /healthz" => ret.status = StatusOK
    /\ ret.route = "GET /readyz" =>
         ret.status \in {StatusOK, StatusServiceUnavailable}

\* a create of a version with a key that is not configured, under a path
\* id that is no UUID, was answered 401 while services are stored
C22_Witness ==
  /\ ret.op = "HTTP"
  /\ ret.route = "POST /v1/services/{id}/versions"
  /\ ret.apiKey = "wrong-key"
  /\ ret.raw = RawId("text", 0, NilId)
  /\ ret.status = StatusUnauthorized
  /\ services # {}

C24_IsDuplicate ==
  /\ ret.op = "HTTP"
  /\ ret.calls # <<>>
  /\ \/ /\ ret.route = "POST /v1/services"
        /\ \E x \in ret.pre.services : x.name = ret.body.name
     \/ /\ ret.route = "POST /v1/services/{id}/versions"
        /\ \E v \in ret.pre.versions :
             v.service_id = ret.raw.id /\ v.version = ret.body.version

C24_DuplicateIs500 ==
  C24_IsDuplicate =>
    /\ ret.status = StatusInternalServerError
    /\ Contains(ret.sent.message, "duplicate key")

\* C25 as stated -- no backend detail in failures.  Whenever a store
\* operation invoked for a request failed, the response body is a fixed
\* message and a kind, and no field of it carries a phrase of the error
\* text the store produced.
C25_EngineFailed ==
  /\ ret.op = "HTTP"
  /\ ret.route \in {"POST /v1/services", "POST /v1/services/{id}/versions"}
  /\ ret.calls # <<>>
  /\ ret.status # StatusCreated

C25_NoBackendDetail ==
  C25_EngineFailed =>
    /\ DOMAIN ret.sent \subseteq {"message", "kind"}
    /\ \A f \in DOMAIN ret.sent :
         \A e \in {UniqueViolation, ForeignKeyViolation, CheckViolation} :
           \A i \in 1..Len(ErrorText(e)) :
             ~ Contains(ret.sent[f], ErrorText(e)[i])

\* C26 -- reads are pure.  Every step that is a ListServices, a GetService
\* or a ListVersions leaves the services and service_versions tables (and
\* the clock) as they were, and what it returns is one of the results
\* that its arguments, the maximum page size and the tables at the time
\* of the call determine: nothing a former call left behind enters it.
C26_ReadStep ==
  /\ ret'.op \in {"ListServices", "GetService", "ListVersions"}
  /\ ret' # ret

C26_ReadsArePure ==
  [][C26_ReadStep =>
       /\ services' = services
       /\ versions' = versions
       /\ clock' = clock
       /\ ret'.op = "ListServices" =>
            [err |-> ret'.err, items |-> ret'.items]
              \in ListServicesResults(services, versions, ret'.q,
                                      ret'.sortKey, ret'.order, ret'.limit,
                                      ret'.offset, ret'.includeVersions)
       /\ ret'.op = "GetService" =>
            ret'.res \in GetServiceResults(services, versions, ret'.id,
                                           ret'.includeVersions)
       /\ ret'.op = "ListVersions" =>
            ret'.res \in ListVersionsResults(versions, ret'.id)]_vars

\* a hydrated GetService found a service that has versions
C26_Witness ==
  /\ ret.op = "GetService"
  /\ ret.includeVersions
  /\ ret.res.found
  /\ Len(ret.res.svc.Versions.elems) = 2

\* C27 -- page walk under interleaved creates.  A finished page walk with
\* page size P, 1 <= P <= maximum page size, between whose ListServices
\* calls other clients created services, has collected every service
\* that was stored when the walk started at least once; services may have
\* been collected twice.
C27_Collected == {walk.acc[i] : i \in 1..Len(walk.acc)}

C28_Attached(i) == ret.items.elems[i].Versions.elems

C28_HydrationUnderWrites ==
  ret.op = "ListServicesHydrated" =>
    /\ Len(ret.items.elems) = Len(ret.parents.elems)
    /\ \A i \in 1..Len(ret.items.elems) :
         /\ [ret.items.elems[i] EXCEPT !.Versions = EmptySlice]
              = [ret.parents.elems[i] EXCEPT !.Versions = EmptySlice]
         /\ \A k \in 1..Len(C28_Attached(i)) :
              C28_Attached(i)[k].service_id = ret.items.elems[i].id
         /\ C11_NewestFirst(C28_Attached(i))
         /\ \A j \in 1..Len(ret.items.elems) :
              \A k \in 1..Len(C28_Attached(i)), l \in 1..Len(C28_Attached(j)) :
                (i # j \/ k # l) => C28_Attached(i)[k].id # C28_Attached(j)[l].id

\* a listing whose child query returned a version that was created after
\* its parent query, next to one that was there before, while a service
\* created in between is not among the parents
C28_Witness ==
  /\ ret.op = "ListServicesHydrated"
  /\ services # ret.services
  /\ \E i \in 1..Len(ret.items.elems) :
       /\ Len(C28_Attached(i)) = 2
       /\ \E k, l \in 1..2 :
            /\ C28_Attached(i)[k] \in ret.versions
            /\ C28_Attached(i)[l] \notin ret.versions

\* C29 as stated -- versions is never null.  Every Service that GetService
\* returns, with or without hydration, carries a versions slice that is
\* not nil (empty when there are none), the representation ListServices
\* gives for the same service under the same hydration.
C29_ListedVersions(id, includeVersions) ==
  UNION {{r.items.elems[i].Versions :
            i \in {k \in 1..Len(r.items.elems) : r.items.elems[k].id = id}} :
           r \in ListServicesResults(services, versions, <<>>, "created_at",
                                     Asc, 0, 0, includeVersions)}

C29_VersionsNeverNil ==
  (ret.op = "GetService" /\ ret.res.found) =>
    /\ ~ ret.res.svc.Versions.isNil
    /\ \A vs \in C29_ListedVersions(ret.id, ret.includeVersions) :
         vs.isNil = ret.res.svc.Versions.isNil

\* C30 -- the validated id reaches the handler.  On the three id routes,
\* whenever the handler ran, the request context held under "id" the path
\* id of the request and that id passes ValidateID, so the handler
\* neither panicked on its read of the value nor took the 400 branch of
\* its own uuid.Parse; and a request whose path id fails ValidateID is
\* answered by the validation middleware, the handler never runs.
C30_HandlerRan == ret.by \in {"panic", "handler parse", "handler"}

C30_ValidatedIdReachesHandler ==
  (ret.op = "HTTP" /\ ret.route \in C20_IdRoutes) =>
    /\ C30_HandlerRan =>
         /\ ret.ctx = WithId(ret.raw)
         /\ ValidateID(ret.ctx.id) = NoErr
         /\ ParseUUID(ret.ctx.id).ok
         /\ ret.by = "handler"
    /\ ValidateID(ret.raw) # NoErr => ~ C30_HandlerRan
    /\ ret.calls # <<>> => C30_HandlerRan

\* the handler of POST /v1/services/{id}/versions ran on a validated id
\* and refused the body, after a request with a bad id had been possible
C30_Witness ==
  /\ ret.op = "HTTP"
  /\ ret.route = "POST /v1/services/{id}/versions"
  /\ ret.by = "handler"
  /\ ret.ctx = WithId(RawId("uuid", 4, 1))
  /\ ret.status = StatusBadRequest
  /\ ret.calls = <<>>
  /\ services # {}

====
